---- MODULE Spec2Model ----
(***************************************************************************)
(* Model of the command router of deriv-teletrader (package core):         *)
(* authorization gate, command dispatch, the two-step /buy dialogue with   *)
(* its callback token, and the static command handlers; of the transport   *)
(* adapter (package telegram) with its polling loop and typing goroutine;  *)
(* and of the earlier transport, which had the handlers built in.          *)
(*                                                                         *)
(* Spec runs the router, one whole dispatch per step.  AdapterSpec runs    *)
(* the adapter step by step around the same ProcessMessage, AdapterLive    *)
(* adds the fairness of its goroutines, LegacySpec runs the earlier        *)
(* transport, BridgeSpec runs the router's free-text branch with the       *)
(* language backend's tool bridge (package llm) behind it.                 *)
(*                                                                         *)
(* Strings that the code only compares or looks up (usernames, command     *)
(* names, error values) are TLA+ strings.  Strings that the code splits,   *)
(* joins, formats or parses (arguments, callback data, reply texts) are    *)
(* sequences of one-character strings; a literal of a format string is one *)
(* element of such a sequence.  Glyphs are written as ASCII tags.          *)
(*                                                                         *)
(* float64 amounts are modelled as integers counting thousandths; the      *)
(* inputs carry at most MaxFracDigits fractional digits, so parsing is     *)
(* exact.  %.2f rounds to hundredths; an exact decimal tie (..5            *)
(* thousandths) is rounded according to the binary representation of the   *)
(* value, which the model leaves as an input of the environment (tieUp).   *)
(***************************************************************************)
EXTENDS Integers, Sequences, FiniteSets, TLC

VARIABLES
    allowedUsers,   \* Bot.allowedUsers: the map keys built by NewBot
    msg,            \* the Message of the latest dispatch
    result,         \* what ProcessMessage returned for it: (response, error)
    calls,          \* collaborator calls made during the latest dispatch
    keyboard,       \* callback data of the buttons last shown in the chat
    offer,          \* symbol and amount of the /buy command that produced keyboard
    clicked,        \* index of the shown button the latest dispatch clicked, or 0
    flights,        \* the transport adapter's handleUpdate invocations, in the
                    \* order Start took their updates.  At the next take, one
                    \* that has returned is dropped if its goroutine has ended
                    \* and reduced to its goroutine otherwise
    ctxDone,        \* the context given to Start has been cancelled
    loop,           \* Start's loop: "polling", or "stopped" once Start returned
    legacy,         \* the latest update the earlier transport handled: the
                    \* message, what the collaborators did (brokerage outcome,
                    \* tieUp, number) and what was sent and called
    bridge,         \* the latest free-text dispatch that went through the tool
                    \* bridge: the message, what the backend and the provider
                    \* had to say, what ProcessWithFunctions did and returned,
                    \* and what ProcessMessage returned
    presses,        \* per button shown in the chat: the clicks of it by listed
                    \* users, the PlaceTrade calls their dispatches made, and
                    \* the other dispatches since its first click, each
                    \* counted up to MaxPresses
    boot,           \* the start command: where runStartCmd stands, its debug
                    \* flag, whether its context is cancelled, the brokerage
                    \* connection, the deferred calls, the updates polled and
                    \* the error returned
    web,            \* the web app's DerivAPIService and the sockets and
                    \* subscriptions it created
    race            \* the ProcessMessage calls that run side by side on the
                    \* one Bot: the message and collaborators of each, how far
                    \* it has come and what it returned

coreVars == <<allowedUsers, msg, result, calls, keyboard, offer, clicked>>
adapterVars == <<flights, ctxDone, loop>>
vars == <<coreVars, adapterVars, legacy, bridge, presses, race, boot, web>>

(***************************************************************************)
(* Bounds                                                                  *)
(***************************************************************************)
MaxFracDigits == 3
\* handleUpdate invocations the model keeps at a time: the one in progress
\* and those that returned while their typing goroutine still runs
MaxFlights == 2
\* clicks of one button that are counted
MaxPresses == 2
\* ProcessMessage calls that run at the same time
MaxRacers == 2
\* updates the start command polls
MaxPolls == 3

\* connection attempts, asynchronous calls and subscriptions of the web
\* app's service
MaxSockets == 3
MaxCalls == 2
MaxSubscriptions == 2

(***************************************************************************)
(* Data model (core.Message, core.Response, core.Button) and collaborators *)
(*                                                                         *)
(* TLC orders the fields of a record by the first occurrence of their      *)
(* names in the module and does so in place; the constructors below are    *)
(* the first occurrences and list the fields in that order, so that every  *)
(* record is built already ordered.                                        *)
(***************************************************************************)
Message(command, args, ref, username, callbackData) ==
    [Command |-> command, Args |-> args, ChatID |-> ref[1], MessageID |-> ref[2],
     Username |-> username, CallbackData |-> callbackData]

Nil == <<>>
Ptr(x) == <<x>>
Deref(p) == p[1]

S_trade == <<"t", "r", "a", "d", "e">>
S_up == <<"u", "p">>
S_down == <<"d", "o", "w", "n">>
S_R50 == <<"R", "_", "5", "0">>
S_R100 == <<"R", "_", "1", "0", "0">>

\* Bot.symbols, the configured symbol list
symbols == <<S_R50, S_R100>>

\* error values a collaborator can return
Faults == {"timeout", "rejected"}
Outcomes == {"ok"} \cup Faults

\* One collaborator call as the router makes it, with the outcome the
\* collaborator returned ("ok" or the error value).
Call(op, symbol, amount, direction, outcome) ==
    [op |-> op, symbol |-> symbol, amount |-> amount,
     direction |-> direction, outcome |-> outcome]

Failed(c) == c.outcome # "ok"

\* MarketDataFunctions, the function catalog: the name of each function and
\* the names of its parameters
MarketDataFunctions ==
    << <<"get_price", <<"symbol">> >>,
       <<"get_historical_data", <<"symbol", "interval", "style", "count">> >> >>

\* One call of the language backend's ProcessWithFunctions as the router
\* makes it: the input text, the market-data provider and the catalog it
\* passes, the outcome ("ok" or the error value) and the text returned
\* ("" with an error).
LLMCall(input, provider, functions, outcome, output) ==
    [op |-> "ProcessWithFunctions", outcome |-> outcome, input |-> input,
     provider |-> provider, functions |-> functions,
     output |-> IF outcome = "ok" THEN output ELSE <<>>]

\* symbol and amount as the /buy command gave them
Offer(symbol, amount) == [symbol |-> symbol, amount |-> amount]

\* fmt.Errorf(text + ": %w", cause); cause is "" when nothing is wrapped
Errorf(text, cause) == [text |-> text, cause |-> cause]

\* variant: the reply reference is left at its zero value
Response_NoReplyTo(text, m, buttons) ==
    [ChatID |-> m.ChatID, Text |-> text, ReplyToMessageID |-> 0,
     Buttons |-> buttons]

Response(text, m, buttons) ==
    [ChatID |-> m.ChatID, Text |-> text, ReplyToMessageID |-> m.MessageID,
     Buttons |-> buttons]

Button(text, callbackData) == [CallbackData |-> callbackData, Text |-> text]

\* what a handler hands back: (*Response, error) and the calls it made
Return(response, err, made) == [response |-> response, err |-> err, calls |-> made]

Reply(text, m) == Return(Ptr(Response(text, m, <<>>)), Nil, <<>>)

\* what the earlier transport's handlers leave behind: the error they
\* return, the calls they made and the texts they sent with reply()
Sent(replies, err, made) == [calls |-> made, err |-> err, replies |-> replies]

\* tgbotapi.MessageConfig as handleUpdate fills it from a response
MessageConfig(response) ==
    [ChatID |-> response.ChatID, Text |-> response.Text,
     ReplyToMessageID |-> response.ReplyToMessageID,
     ReplyMarkup |-> response.Buttons]

\* One invocation of the adapter's handleUpdate:
\*   upd      the update, a pair (kind, core message built from it)
\*   late     the context was already cancelled when the update was taken
\*   stage    "processing" (before ProcessMessage returned), "sending"
\*            (before the reply is sent) or "returned"
\*   invoked  calls of ProcessMessage made so far
\*   answer   the response ProcessMessage returned, Nil before and on error
\*   sent     the replies passed to api.Send, each with the state of the
\*            context at that moment
\*   typing   the typing goroutine: "none", "running" or "exited"
\*   ticks    when the goroutine sent periodic typing actions: the set of
\*            "dispatching" (before handleUpdate returned) and "returned"
\*   ret      what handleUpdate returned: "" (not yet), "nil" or "error"
Flight(upd, late, stage, invoked, answer, sent, typing, ticks, ret) ==
    [upd |-> upd, late |-> late, stage |-> stage, invoked |-> invoked,
     answer |-> answer, sent |-> sent, typing |-> typing, ticks |-> ticks,
     ret |-> ret]

(***************************************************************************)
(* String primitives (Go strings package, fmt, strconv)                    *)
(***************************************************************************)
Digits == <<"0", "1", "2", "3", "4", "5", "6", "7", "8", "9">>

RECURSIVE Pow10(_)
Pow10(n) == IF n = 0 THEN 1 ELSE 10 * Pow10(n - 1)

\* strings.Split(s, sep) for a one-character separator
RECURSIVE SplitFrom(_, _, _, _)
SplitFrom(s, sep, i, cur) ==
    IF i > Len(s) THEN <<cur>>
    ELSE IF s[i] = sep THEN <<cur>> \o SplitFrom(s, sep, i + 1, <<>>)
    ELSE SplitFrom(s, sep, i + 1, Append(cur, s[i]))

Split(s, sep) == SplitFrom(s, sep, 1, <<>>)

\* strings.Join(elems, sep)
RECURSIVE Join(_, _)
Join(elems, sep) ==
    IF Len(elems) = 0 THEN <<>>
    ELSE IF Len(elems) = 1 THEN elems[1]
    ELSE elems[1] \o sep \o Join(Tail(elems), sep)

\* strings.HasSuffix(s, suffix)
HasSuffix(s, suffix) ==
    /\ Len(s) >= Len(suffix)
    /\ SubSeq(s, Len(s) - Len(suffix) + 1, Len(s)) = suffix

\* decimal digits of a natural number
RECURSIVE NatToDigits(_)
NatToDigits(n) ==
    IF n < 10 THEN <<Digits[n + 1]>>
    ELSE Append(NatToDigits(n \div 10), Digits[(n % 10) + 1])

\* value of a sequence of digits (0 for the empty sequence)
RECURSIVE DigitsToNat(_)
DigitsToNat(ds) ==
    IF Len(ds) = 0 THEN 0
    ELSE 10 * DigitsToNat(SubSeq(ds, 1, Len(ds) - 1)) 
           + ((CHOOSE d \in 1..10 : Digits[d] = ds[Len(ds)]) - 1)

AllDigits(ds) == \A i \in 1..Len(ds) : \E d \in 1..10 : Digits[d] = ds[i]

Abs(n) == IF n < 0 THEN -n ELSE n

\* strconv.ParseFloat(s, 64) on decimal literals: [sign] digits [. digits],
\* with at least one digit.  The value is counted in units of
\* 10^-MaxFracDigits.
ParseFloat(s) ==
    LET signed == Len(s) > 0 /\ s[1] \in {"-", "+"}
        neg    == Len(s) > 0 /\ s[1] = "-"
        body   == IF signed THEN Tail(s) ELSE s
        parts  == Split(body, ".")
        ip     == parts[1]
        fp     == IF Len(parts) = 2 THEN parts[2] ELSE <<>>
        wellFormed ==
            /\ Len(parts) <= 2
            /\ AllDigits(ip) /\ AllDigits(fp)
            /\ Len(ip) + Len(fp) > 0
            /\ Len(fp) <= MaxFracDigits
        mag == DigitsToNat(ip) * Pow10(MaxFracDigits)
                 + DigitsToNat(fp) * Pow10(MaxFracDigits - Len(fp))
    IN  IF wellFormed
        THEN [ok |-> TRUE, val |-> IF neg THEN -mag ELSE mag]
        ELSE [ok |-> FALSE, val |-> 0]

\* how many model units (10^-MaxFracDigits) make one hundredth
Hundredth == Pow10(MaxFracDigits - 2)

\* the hundredths nearest to a value counted in model units
\* fmt.Sprintf("%.2f", v): the hundredths nearest to v, a tie going the way
\* the binary value of v lies
FormatFloat2(v, tieUp) ==
    LET q    == Abs(v) \div Hundredth
        r    == Abs(v) % Hundredth
        h    == IF 2 * r > Hundredth \/ (2 * r = Hundredth /\ tieUp)
                THEN q + 1 ELSE q
        frac == h % 100
    IN  (IF v < 0 THEN <<"-">> ELSE <<>>)
          \o NatToDigits(h \div 100) \o <<".">>
          \o <<Digits[(frac \div 10) + 1], Digits[(frac % 10) + 1]>>

(***************************************************************************)
(* Callback token                                                          *)
(***************************************************************************)
Field(parts, i) == IF Len(parts) >= i THEN parts[i] ELSE <<>>

\* ParseCallbackData: the colon-separated token, fields in fixed order
\* action:symbol:amount:direction; a missing field reads as "".
ParseCallbackData(data) ==
    LET parts == Split(data, ":")
    IN  [action |-> Field(parts, 1), symbol |-> Field(parts, 2),
         amount |-> Field(parts, 3), direction |-> Field(parts, 4)]

(***************************************************************************)
(* Command handlers                                                        *)
(***************************************************************************)
T_Unauthorized == <<"[warning] You are not authorized to use this bot.">>
T_NoText == <<"[x] Please provide some text for me to process.">>
T_Unknown == <<"[x] Unknown command. Type /help for available commands.">>
T_Start == <<"[wave] Welcome to Deriv Trading Bot!\n\nUse /help to see available commands.">>
T_Help == <<"Available commands: ... Example:\n1. /buy R_50 10.50\n2. Select Up or Down">>
T_PriceUsage == <<"[x] Please provide a symbol. Example: /price R_50">>
T_BuyUsage == <<"[x] Please provide symbol and amount. Example: /buy R_50 10.50">>
T_SellUsage == <<"[x] Please provide symbol and amount. Example: /sell R_50 10.50">>
T_InvalidAmount == <<"[x] Invalid amount format. Please provide a number.">>

handleStart(m, e) == Reply(T_Start, m)

\* variant: the help text is given once; asked again at once, the user is
\* referred to the answer above
handleHelp_OnlyOnce(m, e) ==
    IF msg.Command = "help" /\ msg.Username = m.Username
    THEN Reply(<<"See the list of commands above.">>, m)
    ELSE Reply(T_Help, m)

handleHelp(m, e) == Reply(T_Help, m)

\* variant: the list is fetched from the brokerage client
handleSymbols_Fetches(m, e) ==
    LET c == Call("GetAvailableSymbols", <<>>, 0, "", e.deriv)
    IN  IF Failed(c)
        THEN Return(Nil, Ptr(Errorf(<<"failed to get symbols">>, e.deriv)), <<c>>)
        ELSE Return(Ptr(Response(<<"Available symbols:\n\n">> \o Join(symbols, <<"\n">>),
                                 m, <<>>)),
                    Nil, <<c>>)

handleSymbols(m, e) ==
    Reply(<<"Available symbols:\n\n">> \o Join(symbols, <<"\n">>), m)

handleBalance(m, e) ==
    LET c == Call("GetBalance", <<>>, 0, "", e.deriv)
    IN  IF Failed(c)
        THEN Return(Nil, Ptr(Errorf(<<"failed to get balance">>, e.deriv)), <<c>>)
        ELSE Return(Ptr(Response(<<"[money] Balance: ">>
                                   \o FormatFloat2(e.number, e.tieUp)
                                   \o <<" ">> \o <<"U", "S", "D">>, m, <<>>)),
                    Nil, <<c>>)

handlePrice(m, e) ==
    IF Len(m.Args) < 1 THEN Reply(T_PriceUsage, m)
    ELSE
        LET symbol == m.Args[1]
            c      == Call("GetPrice", symbol, 0, "", e.deriv)
        IN  IF Failed(c)
            THEN Return(Nil, Ptr(Errorf(<<"failed to get price">>, e.deriv)), <<c>>)
            ELSE Return(Ptr(Response(<<"[chart] ">> \o symbol \o <<" price: ">>
                                       \o FormatFloat2(e.number, e.tieUp),
                                     m, <<>>)),
                        Nil, <<c>>)

handlePosition(m, e) ==
    LET c == Call("GetPosition", <<>>, 0, "", e.deriv)
    IN  IF Failed(c)
        THEN Return(Nil, Ptr(Errorf(<<"failed to get position">>, e.deriv)), <<c>>)
        ELSE Return(Ptr(Response(<<"[bars] Current positions:\n\n", "[position summary]">>,
                                 m, <<>>)),
                    Nil, <<c>>)

\* variant: the suffix test is inverted
CallbackDirection_Swapped(callbackData) ==
    IF HasSuffix(callbackData, <<":">> \o S_down) THEN "CALL" ELSE "PUT"

\* variant: the direction is read from the token's fourth field
CallbackDirection_ByField(callbackData) ==
    IF ParseCallbackData(callbackData).direction = S_down THEN "PUT" ELSE "CALL"

\* the direction handleBuy derives from the raw callback data
CallbackDirection(callbackData) ==
    IF HasSuffix(callbackData, <<":">> \o S_down) THEN "PUT" ELSE "CALL"

DirectionEmoji(direction) ==
    IF direction = "PUT" THEN "[down-arrow]" ELSE "[up-arrow]"

\* variant: the amount goes into the token without its decimals
CallbackBase_WholeAmount(symbol, amount, tieUp) ==
    S_trade \o <<":">> \o symbol \o <<":">>
      \o (IF amount < 0 THEN <<"-">> ELSE <<>>)
      \o NatToDigits(Abs(amount) \div (100 * Hundredth))

\* fmt.Sprintf("trade:%s:%.2f", symbol, amount)
CallbackBase(symbol, amount, tieUp) ==
    S_trade \o <<":">> \o symbol \o <<":">> \o FormatFloat2(amount, tieUp)

\* variant: a failed PlaceTrade is tried a second time
handleBuyCallback_Retries(m, e) ==
    LET data == ParseCallbackData(m.CallbackData)
        amt  == ParseFloat(data.amount)
        direction == CallbackDirection(m.CallbackData)
        c    == Call("PlaceTrade", data.symbol, amt.val, direction, e.deriv)
    IN  IF data.action # S_trade
        THEN Return(Nil, Ptr(Errorf(<<"invalid callback action: ">> \o data.action, "")), <<>>)
        ELSE IF ~amt.ok
        THEN Return(Nil, Ptr(Errorf(<<"invalid amount in callback">>, "strconv.ErrSyntax")), <<>>)
        ELSE IF Failed(c)
        THEN Return(Nil, Ptr(Errorf(<<"failed to place trade">>, e.deriv)), <<c, c>>)
        ELSE Return(Ptr(Response(<<"[check] ", DirectionEmoji(direction),
                                   " Trade placed for ">> \o data.symbol
                                   \o <<": $">> \o FormatFloat2(amt.val, e.tieUp),
                                 m, <<>>)),
                    Nil, <<c>>)

\* step 2 of the dialogue: the message carries callback data
handleBuyCallback(m, e) ==
    LET data == ParseCallbackData(m.CallbackData)
        amt  == ParseFloat(data.amount)
        direction == CallbackDirection(m.CallbackData)
        c    == Call("PlaceTrade", data.symbol, amt.val, direction, e.deriv)
    IN  IF data.action # S_trade
        THEN Return(Nil, Ptr(Errorf(<<"invalid callback action: ">> \o data.action, "")), <<>>)
        ELSE IF ~amt.ok
        THEN Return(Nil, Ptr(Errorf(<<"invalid amount in callback">>, "strconv.ErrSyntax")), <<>>)
        ELSE IF Failed(c)
        THEN Return(Nil, Ptr(Errorf(<<"failed to place trade">>, e.deriv)), <<c>>)
        ELSE Return(Ptr(Response(<<"[check] ", DirectionEmoji(direction),
                                   " Trade placed for ">> \o data.symbol
                                   \o <<": $">> \o FormatFloat2(amt.val, e.tieUp),
                                 m, <<>>)),
                    Nil, <<c>>)

\* variant: the result of parsing the amount is not looked at
handleBuyCommand_SkipsAmountCheck(m, e) ==
    IF Len(m.Args) < 2 THEN Reply(T_BuyUsage, m)
    ELSE
        LET symbol == m.Args[1]
            amt    == ParseFloat(m.Args[2])
            callbackBase == CallbackBase(symbol, amt.val, e.tieUp)
            buttons == << << Button("Up [up-arrow]", callbackBase \o <<":">> \o S_up),
                             Button("Down [down-arrow]", callbackBase \o <<":">> \o S_down) >> >>
        IN  Return(Ptr(Response(<<"[target] Place a trade for ">> \o symbol
                                  \o <<": $">> \o FormatFloat2(amt.val, e.tieUp)
                                  \o <<"\nSelect direction:">>,
                                m, buttons)),
                   Nil, <<>>)

\* step 1 of the dialogue: the /buy command
handleBuyCommand(m, e) ==
    IF Len(m.Args) < 2 THEN Reply(T_BuyUsage, m)
    ELSE
        LET symbol == m.Args[1]
            amt    == ParseFloat(m.Args[2])
            callbackBase == CallbackBase(symbol, amt.val, e.tieUp)
            buttons == << << Button("Up [up-arrow]", callbackBase \o <<":">> \o S_up),
                             Button("Down [down-arrow]", callbackBase \o <<":">> \o S_down) >> >>
        IN  IF ~amt.ok THEN Reply(T_InvalidAmount, m)
            ELSE Return(Ptr(Response(<<"[target] Place a trade for ">> \o symbol
                                       \o <<": $">> \o FormatFloat2(amt.val, e.tieUp)
                                       \o <<"\nSelect direction:">>,
                                     m, buttons)),
                        Nil, <<>>)

\* variant: the callback data is not looked at
handleBuy_IgnoresCallback(m, e) == handleBuyCommand(m, e)

handleBuy(m, e) ==
    IF m.CallbackData # <<>> THEN handleBuyCallback(m, e)
    ELSE handleBuyCommand(m, e)

\* variant: the sell order is placed as a rise contract
handleSell_PlacesCall(m, e) ==
    IF Len(m.Args) < 2 THEN Reply(T_SellUsage, m)
    ELSE
        LET symbol == m.Args[1]
            amt    == ParseFloat(m.Args[2])
            c      == Call("PlaceTrade", symbol, amt.val, "CALL", e.deriv)
        IN  IF ~amt.ok THEN Reply(T_InvalidAmount, m)
            ELSE IF Failed(c)
            THEN Return(Nil, Ptr(Errorf(<<"failed to place sell order">>, e.deriv)), <<c>>)
            ELSE Return(Ptr(Response(<<"[check] Sell order placed for ">> \o symbol
                                       \o <<": $">> \o FormatFloat2(amt.val, e.tieUp),
                                     m, <<>>)),
                        Nil, <<c>>)

handleSell(m, e) ==
    IF Len(m.Args) < 2 THEN Reply(T_SellUsage, m)
    ELSE
        LET symbol == m.Args[1]
            amt    == ParseFloat(m.Args[2])
            c      == Call("PlaceTrade", symbol, amt.val, "PUT", e.deriv)
        IN  IF ~amt.ok THEN Reply(T_InvalidAmount, m)
            ELSE IF Failed(c)
            THEN Return(Nil, Ptr(Errorf(<<"failed to place sell order">>, e.deriv)), <<c>>)
            ELSE Return(Ptr(Response(<<"[check] Sell order placed for ">> \o symbol
                                       \o <<": $">> \o FormatFloat2(amt.val, e.tieUp),
                                     m, <<>>)),
                        Nil, <<c>>)

(***************************************************************************)
(* Authorization gate and router                                           *)
(***************************************************************************)
\* NewBot: the keys of allowedUsersMap are the configured names as given
NewBot(allowedUsernames) == {allowedUsernames[i] : i \in 1..Len(allowedUsernames)}

\* variant: the empty-name test is inverted
isUserAllowed_EmptyPasses(users, username) ==
    IF username = "" THEN TRUE ELSE username \in users

isUserAllowed(users, username) ==
    IF username = "" THEN FALSE ELSE username \in users

\* the keys of Bot.commandHandlers
commandHandlers ==
    {"start", "help", "symbols", "balance", "price", "buy", "sell", "position"}

Handler(name, m, e) ==
    CASE name = "start"    -> handleStart(m, e)
      [] name = "help"     -> handleHelp(m, e)
      [] name = "symbols"  -> handleSymbols(m, e)
      [] name = "balance"  -> handleBalance(m, e)
      [] name = "price"    -> handlePrice(m, e)
      [] name = "buy"      -> handleBuy(m, e)
      [] name = "sell"     -> handleSell(m, e)
      [] name = "position" -> handlePosition(m, e)

\* Router step 2: a callback whose action is trade is remapped onto the buy
\* handler, the decoded fields replacing the textual args.
RemapCallback(m) ==
    LET data == ParseCallbackData(m.CallbackData)
    IN  IF m.CallbackData # <<>> /\ data.action = S_trade
        THEN Message("buy", <<data.symbol, data.amount, data.direction>>,
                     <<m.ChatID, m.MessageID>>, m.Username, m.CallbackData)
        ELSE m

\* variant: a failure of the backend is answered with an apology
ProcessFreeText_Apologizes(m, e) ==
    LET text == Join(m.Args, <<" ">>)
        c    == LLMCall(text, "derivClient", MarketDataFunctions, e.llm, e.said)
    IN  IF text = <<>> THEN Reply(T_NoText, m)
        ELSE IF Failed(c)
        THEN Return(Ptr(Response(<<"[x] Sorry, I could not process that.">>, m, <<>>)),
                    Nil, <<c>>)
        ELSE Return(Ptr(Response(c.output, m, <<>>)), Nil, <<c>>)

\* variant: the backend's answer is shown under a heading
ProcessFreeText_AddsHeading(m, e) ==
    LET text == Join(m.Args, <<" ">>)
        c    == LLMCall(text, "derivClient", MarketDataFunctions, e.llm, e.said)
    IN  IF text = <<>> THEN Reply(T_NoText, m)
        ELSE IF Failed(c)
        THEN Return(Nil, Ptr(Errorf(<<"failed to process text">>, e.llm)), <<c>>)
        ELSE Return(Ptr(Response(<<"[robot] ">> \o c.output, m, <<>>)), Nil, <<c>>)

\* the free-text branch: one call of the language backend, whose answer
\* (e.said) is the text of the response
ProcessFreeText(m, e) ==
    LET text == Join(m.Args, <<" ">>)
        c    == LLMCall(text, "derivClient", MarketDataFunctions, e.llm, e.said)
    IN  IF text = <<>> THEN Reply(T_NoText, m)
        ELSE IF Failed(c)
        THEN Return(Nil, Ptr(Errorf(<<"failed to process text">>, e.llm)), <<c>>)
        ELSE Return(Ptr(Response(c.output, m, <<>>)), Nil, <<c>>)

\* variant: every message that carries callback data goes to the buy handler
ProcessMessage_CallbacksToBuy(users, m0, e) ==
    IF ~isUserAllowed(users, m0.Username) THEN Reply(T_Unauthorized, m0)
    ELSE IF m0.CallbackData # <<>> THEN handleBuy(m0, e)
    ELSE IF m0.Command = "" THEN ProcessFreeText(m0, e)
    ELSE IF m0.Command \notin commandHandlers THEN Reply(T_Unknown, m0)
    ELSE Handler(m0.Command, m0, e)

\* variant: a command without a handler is treated as free text
ProcessMessage_UnknownToFreeText(users, m0, e) ==
    IF ~isUserAllowed(users, m0.Username) THEN Reply(T_Unauthorized, m0)
    ELSE
        LET m == RemapCallback(m0)
        IN  IF m.Command = "" \/ m.Command \notin commandHandlers
            THEN ProcessFreeText(m, e)
            ELSE Handler(m.Command, m, e)

\* variant: the router remembers the callback data it handled last and
\* refuses it when it comes again
ProcessMessage_ConsumesToken(users, m0, e) ==
    IF ~isUserAllowed(users, m0.Username) THEN Reply(T_Unauthorized, m0)
    ELSE IF m0.CallbackData # <<>> /\ m0.CallbackData = msg.CallbackData
    THEN Reply(T_Unknown, m0)
    ELSE
        LET m == RemapCallback(m0)
        IN  IF m.Command = "" THEN ProcessFreeText(m, e)
            ELSE IF m.Command \notin commandHandlers THEN Reply(T_Unknown, m)
            ELSE Handler(m.Command, m, e)

ProcessMessage(users, m0, e) ==
    IF ~isUserAllowed(users, m0.Username) THEN Reply(T_Unauthorized, m0)
    ELSE
        LET m == RemapCallback(m0)
        IN  IF m.Command = "" THEN ProcessFreeText(m, e)
            ELSE IF m.Command \notin commandHandlers THEN Reply(T_Unknown, m)
            ELSE Handler(m.Command, m, e)

(***************************************************************************)
(* Inputs                                                                  *)
(***************************************************************************)
\* the configured allow list (allowed_usernames)
AllowedUsernames == <<"Alice", "bob">>

\* strings.ToLower on the user names of the model
ToLower(u) == IF u = "Alice" THEN "alice" ELSE u

\* who sends what: the sender's user name and the message's reference
\* (ChatID, MessageID).  The
\* router never looks at the reference, so each unlisted sender comes with
\* one reference and the listed sender with both.
Senders ==
    { s \in {"", "alice", "Alice"} \X { <<1, 7>>, <<2, 8>> } :
        \/ s[1] \in NewBot(AllowedUsernames)
        \/ s[1] = "" /\ s[2][1] = 1
        \/ s[1] # "" /\ s[2][1] = 2 }

S_hello == <<"h", "i">>
A_10_5 == <<"1", "0", ".", "5">>
A_1_005 == <<"1", ".", "0", "0", "5">>
A_abc == <<"a", "b", "c">>

\* command and args of the text messages
TextShapes ==
    ({""} \X { <<>>, <<S_hello>>, <<S_hello, S_R50>> })
      \cup ({"start", "help", "symbols", "balance", "position", "stop",
             "Start"} \X { <<>> })
      \cup ({"price"} \X { <<>>, <<S_R50>>, << <<"a", ":", "b">>, S_hello>> })
      \cup ({"buy"} \X
              { <<>>, <<S_R50>>, <<S_R50, A_10_5>>, <<S_R50, A_1_005>>,
                <<S_R50, A_abc>>, << <<"a", ":", "b">>, <<"-", "2">> >>,
                << <<"a", ":", "3">>, A_10_5>>, <<S_R50, A_10_5, S_hello>> })
      \cup ({"sell"} \X { <<S_R50>>, <<S_R50, A_10_5>>, <<S_R50, A_abc>>,
                           <<S_R100, A_1_005>> })

\* callback data that did not come from a button of this bot
ForgedTokens ==
    { S_trade \o <<":">> \o S_R50 \o <<":", "2", ".", "0", "0", ":">> \o S_up,
      S_trade \o <<":">> \o S_R50 \o <<":", "2", ".", "0", "0", "5", ":">> \o S_down,
      S_trade \o <<":">> \o S_R50 \o <<":", "3", ":">> \o S_hello,
      S_trade \o <<":">> \o S_R50 \o <<":", "4">>,
      S_trade \o <<":">> \o S_R50 \o <<":", "6", ":">> \o S_up \o <<":">> \o S_down,
      S_trade \o <<":">> \o S_R50 \o <<":">> \o A_abc \o <<":">> \o S_up,
      S_hello \o <<":">> \o S_R50 \o <<":", "5", ":">> \o S_up,
      S_trade }

\* texts the language backend answers with
S_answer == <<"[llm answer]">>

\* What the collaborators and the float formatting do during one dispatch.
\* A dispatch makes one collaborator call at most, so one fault at a time
\* is enough; tieUp only shows where an amount is formatted, which no
\* failing dispatch does, and the backend's answer only where it succeeds.
Worlds ==
    { w \in [tieUp : BOOLEAN, deriv : Outcomes, number : {12345 * Hundredth},
             llm : Outcomes,
             said : {S_answer, <<"R_50 is at ", "1", "2", "3", ".", "4", "5">>,
                     <<>>}] :
        /\ w.deriv = "ok" \/ w.llm = "ok"
        /\ (w.deriv = "ok" /\ w.llm = "ok") \/ ~w.tieUp
        /\ (w.deriv = "ok" /\ w.llm = "ok" /\ ~w.tieUp) \/ w.said = S_answer }

(***************************************************************************)
(* State machine: one action per kind of inbound event, each the whole     *)
(* dispatch of that event                                                  *)
(***************************************************************************)
NoMessage == Message("", <<>>, <<0, 0>>, "", <<>>)
NoResult == [response |-> Nil, err |-> Nil]

Init ==
    /\ allowedUsers = NewBot(AllowedUsernames)
    /\ msg = NoMessage
    /\ result = NoResult
    /\ calls = <<>>
    /\ keyboard = <<>>
    /\ offer = Offer(<<>>, 0)
    /\ clicked = 0
    /\ flights = <<>>
    /\ ctxDone = FALSE
    /\ loop = "polling"
    /\ legacy = <<>>
    /\ bridge = <<>>
    /\ presses = <<>>
    /\ race = <<>>
    /\ boot = <<>>
    /\ web = <<>>

\* ProcessMessage for one inbound event and what the chat shows after it:
\* the callback data of the buttons of the response
Handle(m, w, button) ==
    \E out \in {ProcessMessage(allowedUsers, m, w)} :
    \E shown \in {IF out.response = Nil
                      \/ Len(Deref(out.response).Buttons) = 0 THEN <<>>
                   ELSE [i \in 1..Len(Deref(out.response).Buttons[1]) |->
                            Deref(out.response).Buttons[1][i].CallbackData]} :
        /\ msg' = m
        /\ result' = [response |-> out.response, err |-> out.err]
        /\ calls' = out.calls
        /\ keyboard' = IF shown # <<>> THEN shown ELSE keyboard
        /\ offer' = IF shown # <<>>
                    THEN Offer(m.Args[1], ParseFloat(m.Args[2]).val) ELSE offer
        /\ clicked' = button
        /\ UNCHANGED <<allowedUsers, adapterVars, legacy, bridge, race, boot, web>>

Dispatch(m, w, button) == Handle(m, w, button) /\ UNCHANGED presses

\* a text message: a command with its arguments, or free text
TextMessage ==
    \E shape \in TextShapes, s \in Senders, w \in Worlds :
        Dispatch(Message(shape[1], shape[2], s[2], s[1], <<>>), w, 0)

\* a click on one of the buttons shown in the chat
ButtonClick ==
    \E i \in 1..Len(keyboard), s \in Senders, w \in Worlds :
        Dispatch(Message("", <<>>, s[2], s[1], keyboard[i]), w, i)

\* a callback event whose data the sender made up
ForgedCallback ==
    \E token \in ForgedTokens, s \in Senders, w \in Worlds :
        Dispatch(Message("", <<>>, s[2], s[1], token), w, 0)

Next == TextMessage \/ ButtonClick \/ ForgedCallback

Spec == Init /\ [][Next]_vars

(***************************************************************************)
(* The same dispatches with the chat's buttons followed over time: what    *)
(* became of each button shown, click after click                          *)
(***************************************************************************)
Count(n, k) == IF n + k > MaxPresses THEN MaxPresses ELSE n + k

\* the counts after a dispatch that was no click of a listed user: a new
\* keyboard starts its own, else a dispatch more since each first click
Passed(shown, before) ==
    IF shown # before[1]
    THEN [i \in 1..Len(shown) |-> <<0, 0, 0>>]
    ELSE [i \in 1..Len(before[2]) |->
            IF before[2][i][1] = 0 THEN before[2][i]
            ELSE <<before[2][i][1], before[2][i][2], Count(before[2][i][3], 1)>>]

\* the counts after the dispatch of a listed user's click of button b, which
\* made the calls made
Pressed(b, made, before) ==
    [i \in 1..Len(before) |->
        IF i = b
        THEN <<Count(before[i][1], 1),
               Count(before[i][2],
                     Cardinality({j \in 1..Len(made) : made[j].op = "PlaceTrade"})),
               before[i][3]>>
        ELSE IF before[i][1] = 0 THEN before[i]
        ELSE <<before[i][1], before[i][2], Count(before[i][3], 1)>>]

\* a text message between the clicks: free text, a command, or one of two
\* /buy commands that show a keyboard
Chatter ==
    \E shape \in { <<"", <<S_hello>> >>, <<"help", <<>> >>,
                    <<"buy", <<S_R50, A_10_5>> >>, <<"buy", <<S_R50, A_1_005>> >> },
       s \in Senders, w \in Worlds :
        /\ Handle(Message(shape[1], shape[2], s[2], s[1], <<>>), w, 0)
        /\ presses' = Passed(keyboard', <<keyboard, presses>>)

\* a click on one of the buttons shown in the chat, any time after it was
\* shown
Press ==
    \E i \in 1..Len(keyboard), s \in Senders, w \in Worlds :
        /\ Handle(Message("", <<>>, s[2], s[1], keyboard[i]), w, i)
        /\ presses' = IF isUserAllowed(allowedUsers, s[1])
                      THEN Pressed(i, calls', presses)
                      ELSE Passed(keyboard', <<keyboard, presses>>)

ClickSpec == Init /\ [][Chatter \/ Press]_vars

(***************************************************************************)
(* ProcessMessage step by step, several calls at a time on one Bot.  A     *)
(* call reads Bot.allowedUsers, then Bot.commandHandlers, then runs the    *)
(* handler, which waits for its collaborator; another call may take its    *)
(* steps between any two of these.                                         *)
(***************************************************************************)
Run(m, w, stage, out) == <<m, w, stage, out>>

Outcome(ret) == <<ret.response, ret.err, ret.calls>>

\* the messages of the calls: a /buy and free text of a listed user, a click
\* of a listed and of an unlisted user, and a command without a handler.
\* ProcessMessage is called while fewer than MaxRacers calls are going on;
\* during the call all is well or one of the collaborators fails
Enter ==
    /\ Len(race) < MaxRacers
    /\ \E m \in
            { Message("buy", <<S_R50, A_10_5>>, <<1, 7>>, "Alice", <<>>),
              Message("", <<S_hello>>, <<1, 7>>, "Alice", <<>>),
              Message("", <<>>, <<2, 8>>, "Alice",
                      CallbackBase(S_R50, 2000, FALSE) \o <<":">> \o S_up),
              Message("", <<>>, <<2, 8>>, "alice",
                      CallbackBase(S_R50, 2000, FALSE) \o <<":">> \o S_down),
              Message("Start", <<>>, <<1, 7>>, "bob", <<>>) },
         w \in {v \in Worlds : ~v.tieUp /\ v.said = S_answer} :
          race' = Append(race, Run(m, w, "called", <<>>))
    /\ UNCHANGED <<coreVars, adapterVars, legacy, bridge, presses, boot, web>>

\* variant: a sender who was let in once is remembered in lower case
Authorize_LearnsSender(i) ==
    /\ race[i][3] = "called"
    /\ race' = [race EXCEPT ![i] =
          IF isUserAllowed(allowedUsers, race[i][1].Username)
          THEN Run(race[i][1], race[i][2], "allowed", <<>>)
          ELSE Run(race[i][1], race[i][2], "returned",
                   Outcome(Reply(T_Unauthorized, race[i][1])))]
    /\ allowedUsers' = IF isUserAllowed(allowedUsers, race[i][1].Username)
                       THEN allowedUsers \cup {ToLower(race[i][1].Username)}
                       ELSE allowedUsers
    /\ UNCHANGED <<msg, result, calls, keyboard, offer, clicked, adapterVars,
                   legacy, bridge, presses, boot, web>>

\* the check of the sender against Bot.allowedUsers
Authorize(i) ==
    /\ race[i][3] = "called"
    /\ race' = [race EXCEPT ![i] =
          IF isUserAllowed(allowedUsers, race[i][1].Username)
          THEN Run(race[i][1], race[i][2], "allowed", <<>>)
          ELSE Run(race[i][1], race[i][2], "returned",
                   Outcome(Reply(T_Unauthorized, race[i][1])))]
    /\ UNCHANGED <<coreVars, adapterVars, legacy, bridge, presses, boot, web>>

\* the choice of the branch: free text, or the look-up of the command in
\* Bot.commandHandlers
Route(i) ==
    /\ race[i][3] = "allowed"
    /\ \E m \in {RemapCallback(race[i][1])} :
          race' = [race EXCEPT ![i] =
            IF m.Command = "" \/ m.Command \in commandHandlers
            THEN Run(race[i][1], race[i][2], "handling", <<>>)
            ELSE Run(race[i][1], race[i][2], "returned",
                     Outcome(Reply(T_Unknown, m)))]
    /\ UNCHANGED <<coreVars, adapterVars, legacy, bridge, presses, boot, web>>

\* the branch chosen runs, collaborator call included, and returns
Serve(i) ==
    /\ race[i][3] = "handling"
    /\ \E m \in {RemapCallback(race[i][1])} :
          race' = [race EXCEPT ![i] =
            Run(race[i][1], race[i][2], "returned",
                Outcome(IF m.Command = "" THEN ProcessFreeText(m, race[i][2])
                        ELSE Handler(m.Command, m, race[i][2])))]
    /\ UNCHANGED <<coreVars, adapterVars, legacy, bridge, presses, boot, web>>

\* every call has returned and the callers are gone
Leave ==
    /\ race # <<>>
    /\ \A i \in 1..Len(race) : race[i][3] = "returned"
    /\ race' = <<>>
    /\ UNCHANGED <<coreVars, adapterVars, legacy, bridge, presses, boot, web>>

RaceNext ==
    \/ Enter
    \/ \E i \in 1..Len(race) : Authorize(i)
    \/ \E i \in 1..Len(race) : Route(i)
    \/ \E i \in 1..Len(race) : Serve(i)
    \/ Leave

RaceSpec == Init /\ [][RaceNext]_vars

(***************************************************************************)
(* Transport adapter (package telegram): Start's loop, handleUpdate and    *)
(* the typing goroutine, one action per step between two blocking points   *)
(***************************************************************************)
\* what the collaborators do during one ProcessMessage: every call made
\* returns the outcome o
Weather(o) ==
    [tieUp |-> FALSE, deriv |-> o, number |-> 12345 * Hundredth, llm |-> o,
     said |-> S_answer]

\* variant: handleUpdate is started in a goroutine of its own
LoopReady_Spawns == TRUE

\* Start calls handleUpdate in the loop itself, so it selects again only
\* when every handleUpdate it called has returned
LoopReady == \A i \in 1..Len(flights) : flights[i].stage = "returned"

\* The invocations that are still going on when Start takes the next update:
\* those that have not returned, and the goroutines of those that have.
\* What is left of an invocation that has returned while its goroutine still
\* runs: the goroutine.  The response and the reply were locals of
\* handleUpdate and are gone with its frame.
Retained ==
    LET going == SelectSeq(flights,
                     LAMBDA f : f.stage # "returned" \/ f.typing = "running")
        Goroutine(f) ==
            IF f.stage = "returned"
            THEN Flight(f.upd, f.late, f.stage, f.invoked, Nil, <<>>, f.typing,
                        f.ticks \ {"dispatching"}, f.ret)
            ELSE f
    IN  [i \in 1..Len(going) |-> Goroutine(going[i])]

\* handleUpdate up to the call of ProcessMessage: an update that is neither
\* a callback nor a message returns at once; a callback is answered; a
\* message gets the initial typing action and the typing goroutine
Begin(u) ==
    CASE u[1] = "other"    ->
             Flight(u, ctxDone, "returned", 0, Nil, <<>>, "none", {}, "nil")
      [] u[1] = "callback" ->
             Flight(u, ctxDone, "processing", 0, Nil, <<>>, "none", {}, "")
      [] u[1] = "message"  ->
             Flight(u, ctxDone, "processing", 0, Nil, <<>>, "running", {}, "")

\* The updates Start receives, each a pair of its kind and the core message
\* handleUpdate builds from it: two text messages of one chat (a command
\* that calls no collaborator and is answered with a keyboard, and free
\* text, which calls the language backend), a click on a trade button in
\* another chat, and an update that is neither a message nor a click.
\* Start's select takes the next update.
TakeUpdate ==
    /\ loop = "polling"
    /\ LoopReady
    /\ Len(Retained) < MaxFlights
    /\ \E u \in
         { <<"message", Message("buy", <<S_R50, A_10_5>>, <<1, 7>>, "Alice", <<>>)>>,
           <<"message", Message("", <<S_hello>>, <<1, 7>>, "Alice", <<>>)>>,
           <<"callback", Message("", <<>>, <<2, 8>>, "Alice",
                                 CallbackBase(S_R50, 2000, FALSE) \o <<":">> \o S_up)>>,
           <<"other", NoMessage>> } :
           flights' = Append(Retained, Begin(u))
    /\ UNCHANGED <<coreVars, ctxDone, loop, legacy, bridge, presses, race, boot, web>>

\* ProcessMessage returns: an error makes handleUpdate return it, without a
\* reply; the deferred cancelTyping runs at the return.  A call made with a
\* cancelled context fails.
Process(i) ==
    /\ i \in 1..Len(flights)
    /\ flights[i].stage = "processing"
    /\ \E w \in (IF ctxDone THEN {Weather("context canceled")}
                 ELSE {Weather(o) : o \in Outcomes}) :
       \E out \in {ProcessMessage(allowedUsers, flights[i].upd[2], w)} :
           flights' = [flights EXCEPT ![i] =
               IF out.err # Nil
               THEN Flight(@.upd, @.late, "returned", @.invoked + 1, Nil, @.sent,
                           @.typing, @.ticks, "error")
               ELSE Flight(@.upd, @.late, "sending", @.invoked + 1, out.response, @.sent,
                           @.typing, @.ticks, "")]
    /\ UNCHANGED <<coreVars, ctxDone, loop, legacy, bridge, presses, race, boot, web>>

\* variant: the reply is sent once as text and once more with the keyboard
SendReply_Twice(i) ==
    /\ i \in 1..Len(flights)
    /\ flights[i].stage = "sending"
    /\ \E ok \in BOOLEAN :
           flights' = [flights EXCEPT ![i] =
               Flight(@.upd, @.late, "returned", @.invoked, @.answer,
                      @.sent \o <<<<ctxDone, MessageConfig(Deref(@.answer))>>,
                                  <<ctxDone, MessageConfig(Deref(@.answer))>>>>,
                      @.typing, @.ticks, IF ok THEN "nil" ELSE "error")]
    /\ UNCHANGED <<coreVars, ctxDone, loop, legacy, bridge, presses, race, boot, web>>

\* the reply is built from the response and passed to api.Send, which may
\* fail; handleUpdate returns, and the deferred cancelTyping runs
SendReply(i) ==
    /\ i \in 1..Len(flights)
    /\ flights[i].stage = "sending"
    /\ \E ok \in BOOLEAN :
           flights' = [flights EXCEPT ![i] =
               Flight(@.upd, @.late, "returned", @.invoked, @.answer,
                      Append(@.sent, <<ctxDone, MessageConfig(Deref(@.answer))>>),
                      @.typing, @.ticks, IF ok THEN "nil" ELSE "error")]
    /\ UNCHANGED <<coreVars, ctxDone, loop, legacy, bridge, presses, race, boot, web>>

\* variant: cancelTyping is not deferred
TypingDone_NoDefer(f) == ctxDone

\* typingCtx is done: cancelTyping has run (at handleUpdate's return), or the
\* context it was derived from has been cancelled
TypingDone(f) == f.stage = "returned" \/ ctxDone

\* the goroutine's select takes the ticker's case and sends a typing action,
\* any number of times.  When the ticker has fired, select may take this
\* case even though typingCtx is done as well.
TypingTick(i) ==
    /\ i \in 1..Len(flights)
    /\ flights[i].typing = "running"
    /\ flights' = [flights EXCEPT ![i] =
           Flight(@.upd, @.late, @.stage, @.invoked, @.answer, @.sent, @.typing,
                  @.ticks \cup {IF @.stage = "returned" THEN "returned"
                                                        ELSE "dispatching"},
                  @.ret)]
    /\ UNCHANGED <<coreVars, ctxDone, loop, legacy, bridge, presses, race, boot, web>>

\* the goroutine's select takes typingCtx.Done: the goroutine returns and
\* its deferred ticker.Stop runs
TypingExit(i) ==
    /\ i \in 1..Len(flights)
    /\ flights[i].typing = "running"
    /\ TypingDone(flights[i])
    /\ flights' = [flights EXCEPT ![i] =
           Flight(@.upd, @.late, @.stage, @.invoked, @.answer, @.sent, "exited",
                  @.ticks, @.ret)]
    /\ UNCHANGED <<coreVars, ctxDone, loop, legacy, bridge, presses, race, boot, web>>

\* the interrupt handler of the start command cancels the context
CancelContext ==
    /\ ~ctxDone
    /\ ctxDone' = TRUE
    /\ UNCHANGED <<coreVars, flights, loop, legacy, bridge, presses, race, boot, web>>

\* variant: Start gives up when a handleUpdate it called returned an error
StartReturns_OnError ==
    /\ loop = "polling"
    /\ LoopReady
    /\ ctxDone \/ \E i \in 1..Len(flights) : flights[i].ret = "error"
    /\ loop' = "stopped"
    /\ UNCHANGED <<coreVars, flights, ctxDone, legacy, bridge, presses, race, boot, web>>

\* Start's select takes ctx.Done and Start returns
StartReturns ==
    /\ loop = "polling"
    /\ LoopReady
    /\ ctxDone
    /\ loop' = "stopped"
    /\ UNCHANGED <<coreVars, flights, ctxDone, legacy, bridge, presses, race, boot, web>>

AdapterNext ==
    \/ TakeUpdate
    \/ \E i \in 1..MaxFlights :
           Process(i) \/ SendReply(i) \/ TypingTick(i) \/ TypingExit(i)
    \/ CancelContext
    \/ StartReturns

AdapterSpec == Init /\ [][AdapterNext]_vars

\* A goroutine that can run does run: once typingCtx is done, the select of
\* the typing goroutine is ready and stays ready until it is taken.
AdapterLive ==
    AdapterSpec /\ \A i \in 1..MaxFlights : WF_vars(TypingExit(i))

(***************************************************************************)
(* The earlier transport (one package: allow list, command table, handlers *)
(* that send their replies themselves, and handleUpdate)                   *)
(***************************************************************************)
\* NewBot: the keys of allowedUsers are the configured names in lower case
LegacyNewBot(allowedUsernames) ==
    {ToLower(allowedUsernames[i]) : i \in 1..Len(allowedUsernames)}

T_ErrorExecuting == <<"[x] Error executing command">>

\* b.reply(msg, text) returning nil
LegacyReply(text) == Sent(<<text>>, Nil, <<>>)

\* a handler that calls the brokerage client once: its error on failure,
\* one reply on success
LegacyCall(c, failure, text) ==
    IF Failed(c) THEN Sent(<<>>, Ptr(Errorf(failure, c.outcome)), <<c>>)
    ELSE Sent(<<text>>, Nil, <<c>>)

LegacyHandleBalance(m, e) ==
    LegacyCall(Call("GetBalance", <<>>, 0, "", e.deriv),
               <<"failed to get balance">>,
               <<"[money] Balance: $">> \o FormatFloat2(e.number, e.tieUp))

LegacyHandlePrice(m, e) ==
    IF Len(m.Args) < 1 THEN LegacyReply(T_PriceUsage)
    ELSE LegacyCall(Call("GetPrice", m.Args[1], 0, "", e.deriv),
                    <<"failed to get price">>,
                    <<"[chart] ">> \o m.Args[1] \o <<" price: ">>
                        \o FormatFloat2(e.number, e.tieUp))

\* handleBuy and handleSell: the same but for the direction and the texts
LegacyHandleTrade(m, e, direction, usage, failure, placed) ==
    IF Len(m.Args) < 2 THEN LegacyReply(usage)
    ELSE LET amt == ParseFloat(m.Args[2])
         IN  IF ~amt.ok THEN LegacyReply(T_InvalidAmount)
             ELSE LegacyCall(Call("PlaceTrade", m.Args[1], amt.val, direction, e.deriv),
                             failure,
                             placed \o m.Args[1] \o <<": $">>
                                 \o FormatFloat2(amt.val, e.tieUp))

LegacyHandlePosition(m, e) ==
    LegacyCall(Call("GetPosition", <<>>, 0, "", e.deriv),
               <<"failed to get position">>,
               <<"[bars] Current positions:\n\n", "[position summary]">>)

LegacyHandler(name, m, e) ==
    CASE name = "start"    -> LegacyReply(T_Start)
      [] name = "help"     -> LegacyReply(<<"Available commands: ... /sell <symbol> <amount> - Place a sell order ...">>)
      [] name = "symbols"  ->
             LegacyReply(<<"Available symbols:\n\n">> \o Join(symbols, <<"\n">>))
      [] name = "balance"  -> LegacyHandleBalance(m, e)
      [] name = "price"    -> LegacyHandlePrice(m, e)
      [] name = "buy"      ->
             LegacyHandleTrade(m, e, "CALL", T_BuyUsage,
                               <<"failed to place buy order">>,
                               <<"[check] Buy order placed for ">>)
      [] name = "sell"     ->
             LegacyHandleTrade(m, e, "PUT", T_SellUsage,
                               <<"failed to place sell order">>,
                               <<"[check] Sell order placed for ">>)
      [] name = "position" -> LegacyHandlePosition(m, e)

\* handleUpdate: the allow-list check (isUserAllowed: no user name, no
\* access), the command table, and the reply that reports a handler's
\* error with its err.Error(); a message that is no command gets no
\* reply
LegacyHandleUpdate(users, m, e) ==
    IF m.Username = "" \/ ToLower(m.Username) \notin users
    THEN LegacyReply(T_Unauthorized)
    ELSE IF m.Command = "" THEN Sent(<<>>, Nil, <<>>)
    ELSE IF m.Command \notin commandHandlers THEN LegacyReply(T_Unknown)
    ELSE LET done == LegacyHandler(m.Command, m, e)
         IN  IF done.err # Nil
             THEN Sent(<<T_ErrorExecuting \o <<": ">> \o Deref(done.err).text
                          \o <<": ", Deref(done.err).cause>> >>,
                       Nil, done.calls)
             ELSE done

\* Start's loop hands a message to handleUpdate (it skips every update
\* without one)
LegacyUpdate ==
    \E shape \in TextShapes, s \in Senders, w \in Worlds :
    \E m \in {Message(shape[1], shape[2], s[2], s[1], <<>>)} :
        /\ legacy' = <<m, <<w.deriv, w.tieUp, w.number>>,
                        LegacyHandleUpdate(LegacyNewBot(AllowedUsernames), m, w)>>
        /\ UNCHANGED <<coreVars, adapterVars, bridge, presses, race, boot, web>>

LegacySpec == Init /\ [][LegacyUpdate]_vars

(***************************************************************************)
(* The language backend's tool bridge (package llm): ProcessWithFunctions  *)
(* and executeFunction, with the market-data provider behind them.         *)
(*                                                                         *)
(* A completion of the backend is modelled by what encoding/json makes of  *)
(* it: prose (a sequence of pieces of text) or one JSON object, written    *)
(* the way the prompt shows it, each key directly followed by its colon.   *)
(* JSON values are pairs of a type tag and the value; an object's value is *)
(* the sequence of its members, each a pair of key and value.  Error       *)
(* values are the strings err.Error() yields.                              *)
(***************************************************************************)
One == 100 * Hundredth

JString(str) == <<"string", str>>
JNumber(num) == <<"number", num>>
JObject(members) == <<"object", members>>
\* JSON null; also what indexing a map yields for a key it does not have
JNull == <<"null">>
Prose(pieces) == <<"prose", pieces>>

\* the key the prompt tells the backend to write, as it stands in the text
FunctionKey == "\"function\":"

\* the functions executeFunction knows
Tools == {"get_price", "get_historical_data"}

\* the values of core.TimeInterval that the provider's GetHistoricalData
\* accepts, and core.StyleTicks and core.StyleCandles
Intervals == {"hour", "day", "week", "month"}

Last(set) == CHOOSE i \in set : \A j \in set : j <= i

\* m[key] on the map encoding/json built from an object's members
Lookup(members, key) ==
    LET at == {i \in 1..Len(members) : members[i][1] = key}
    IN  IF at = {} THEN JNull ELSE members[Last(at)][2]

\* the member encoding/json stores into the struct field of that tag: keys
\* match without regard to case, and a later member overwrites an earlier one
Tagged(members, tag) ==
    LET Fold(key) == CASE key = "Name"     -> "name"
                       [] key = "Function" -> "function"
                       [] OTHER            -> key
        at == {i \in 1..Len(members) : Fold(members[i][1]) = tag}
    IN  IF at = {} THEN JNull ELSE members[Last(at)][2]

\* v.(string)
AsString(v) == [ok |-> v[1] = "string", val |-> IF v[1] = "string" THEN v[2] ELSE ""]

\* the text of a JSON value
RECURSIVE Render(_)
RenderMembers(members) ==
    Join([i \in 1..Len(members) |->
              <<"\"" \o members[i][1] \o "\":">> \o Render(members[i][2])],
         <<",">>)
Render(v) ==
    CASE v[1] = "string" -> <<"\"" \o v[2] \o "\"">>
      [] v[1] = "number" ->
             (IF v[2] < 0 THEN <<"-">> ELSE <<>>) \o NatToDigits(Abs(v[2]) \div One)
               \o (IF Abs(v[2]) % One = 0 THEN <<>>
                   ELSE <<".">> \o Tail(NatToDigits(One + (Abs(v[2]) % One))))
      [] v[1] = "object" -> <<"{">> \o RenderMembers(v[2]) \o <<"}">>
      [] OTHER           -> <<"null">>

\* a completion as the string c.llm.Call returned
Text(completion) ==
    IF completion[1] = "prose" THEN completion[2] ELSE Render(completion)

\* some member of the value, at any depth, has that key
RECURSIVE HasKey(_, _)
HasKey(v, key) ==
    /\ v[1] = "object"
    /\ \E i \in 1..Len(v[2]) : v[2][i][1] = key \/ HasKey(v[2][i][2], key)

\* strings.Contains(response, `"function":`)
ContainsFunctionKey(response) ==
    IF response[1] = "prose"
    THEN \E i \in 1..Len(response[2]) : response[2][i] = FunctionKey
    ELSE HasKey(response, "function")

\* core.LLMFunctionCall and the error of decoding it
FunctionCall(err, name, arguments) == <<err, name, arguments>>

\* json.Unmarshal([]byte(response), &functionCall): the text must be one
\* JSON value; Name is taken from the member tagged name and Arguments from
\* the member tagged arguments, every other member is skipped, and a member
\* that is missing or null leaves its field at the zero value
Unmarshal(response) ==
    IF response[1] # "object"
    THEN FunctionCall("invalid character looking for beginning of value", "", <<>>)
    ELSE LET name == Tagged(response[2], "name")
             arguments == Tagged(response[2], "arguments")
         IN  IF name[1] \notin {"string", "null"} \/ arguments[1] \notin {"object", "null"}
             THEN FunctionCall("json: cannot unmarshal", "", <<>>)
             ELSE FunctionCall("ok",
                               IF name[1] = "string" THEN name[2] ELSE "",
                               IF arguments[1] = "object" THEN arguments[2] ELSE <<>>)

\* one call of the market-data provider: the provider, the method, its
\* arguments and the error it returned ("ok" for nil)
Query(provider, method, arguments, err) == <<provider, method, arguments, err>>

\* the provider's GetPrice: the error it returns
GetPrice(symbol, market) == market[1]

\* the provider's GetHistoricalData: an interval it does not know is an
\* error of its own, before anything is asked of the connection
GetHistoricalData(req, market) ==
    IF req[2] \notin Intervals THEN "invalid interval: " \o req[2]
    ELSE market[1]

\* what executeFunction returns, and the provider calls it made
Executed(err, output, queries) == <<err, output, queries>>

\* variant: a function that is not known is taken for get_price
executeFunction_FallsBackToPrice(call, provider, market) ==
    LET symbol == AsString(Lookup(call[3], "symbol"))
        err    == GetPrice(symbol.val, market)
    IN  IF ~symbol.ok THEN Executed("invalid symbol argument", <<>>, <<>>)
        ELSE IF err # "ok"
        THEN Executed("failed to get price: " \o err, <<>>,
                      <<Query(provider, "GetPrice", <<symbol.val>>, err)>>)
        ELSE Executed("ok",
                      <<"Current price for ", symbol.val, ": ">>
                          \o FormatFloat2(market[2], FALSE),
                      <<Query(provider, "GetPrice", <<symbol.val>>, err)>>)

executeFunction(call, provider, market) ==
    LET symbol   == AsString(Lookup(call[3], "symbol"))
        interval == AsString(Lookup(call[3], "interval"))
        style    == AsString(Lookup(call[3], "style"))
        count    == Lookup(call[3], "count")
        req      == << symbol.val,
                       IF interval.ok THEN interval.val ELSE "hour",
                       IF style.ok THEN style.val ELSE "candles",
                       \* v.(float64) and int(f) for a float64 in model units
                       IF count[1] # "number" THEN 10
                       ELSE IF count[2] >= 0 THEN count[2] \div One
                       ELSE -((-count[2]) \div One) >>
    IN  CASE call[2] = "get_price" ->
                 LET err == GetPrice(symbol.val, market)
                 IN  IF ~symbol.ok THEN Executed("invalid symbol argument", <<>>, <<>>)
                     ELSE IF err # "ok"
                     THEN Executed("failed to get price: " \o err, <<>>,
                                   <<Query(provider, "GetPrice", <<symbol.val>>, err)>>)
                     ELSE Executed("ok",
                                   <<"Current price for ", symbol.val, ": ">>
                                       \o FormatFloat2(market[2], FALSE),
                                   <<Query(provider, "GetPrice", <<symbol.val>>, err)>>)
          [] call[2] = "get_historical_data" ->
                 LET err == GetHistoricalData(req, market)
                 IN  IF ~symbol.ok THEN Executed("invalid symbol argument", <<>>, <<>>)
                     ELSE IF err # "ok"
                     THEN Executed("failed to get historical data: " \o err, <<>>,
                                   <<Query(provider, "GetHistoricalData", req, err)>>)
                     ELSE Executed("ok",
                                   <<"Historical data for ", req[1], " (", req[2], ", ",
                                     req[3], "):\n",
                                     IF req[3] = "candles" THEN "Time: 1, Open: ... Close: "
                                                           ELSE "Time: 1, Price: ">>
                                       \o FormatFloat2(market[2], FALSE) \o <<"\n">>,
                                   <<Query(provider, "GetHistoricalData", req, err)>>)
          [] OTHER -> Executed("unknown function: " \o call[2], <<>>, <<>>)

\* the prompt of the first completion: the descriptions of the functions,
\* the format of a function call, and the user's text
Prompt(input, functions) ==
    <<"You are a trading assistant ... You can use these functions:\n\n">>
      \o Join([i \in 1..Len(functions) |->
                   <<"Function: ", functions[i][1], "\nParameters: ">>
                       \o functions[i][2] \o <<"\n">>],
              <<"\n">>)
      \o <<"\nTo use a function, respond with a JSON object in this format:\n",
           "{", FunctionKey, " \"function_name\", ", "\"arguments\":",
           " {\"param1\": \"value1\", ...}}", "\n\nUser: ">>
      \o input \o <<"\n\nAssistant:">>

FollowUpPrompt(prompt, output) ==
    prompt \o <<"\n\nFunction result: ">> \o output
           \o <<"\n\nPlease analyze this data and provide insights:">>

\* what ProcessWithFunctions returns (the error, "ok" for nil, and the
\* text), the prompts it passed to c.llm.Call and the provider calls made
Processed(err, response, prompts, queries) == <<err, response, prompts, queries>>

\* variant: a function call in the second completion is executed as well,
\* and its result returned
ProcessWithFunctions_SecondRound(input, provider, functions, script, market) ==
    LET prompt   == Prompt(input, functions)
        response == script[1][2]
        call     == Unmarshal(response)
        done     == executeFunction(call, provider, market)
        followUp == FollowUpPrompt(prompt, done[2])
        again    == executeFunction(Unmarshal(script[2][2]), provider, market)
    IN  IF input = <<>> THEN Processed("input text cannot be empty", <<>>, <<>>, <<>>)
        ELSE IF script[1][1] # "ok"
        THEN Processed("failed to process text: " \o script[1][1], <<>>, <<prompt>>, <<>>)
        ELSE IF ~ContainsFunctionKey(response)
        THEN Processed("ok", Text(response), <<prompt>>, <<>>)
        ELSE IF call[1] # "ok"
        THEN Processed("failed to parse function call: " \o call[1], <<>>, <<prompt>>, <<>>)
        ELSE IF done[1] # "ok"
        THEN Processed("failed to execute function: " \o done[1], <<>>, <<prompt>>, done[3])
        ELSE IF script[2][1] # "ok"
        THEN Processed("failed to process follow-up: " \o script[2][1], <<>>,
                       <<prompt, followUp>>, done[3])
        ELSE IF ContainsFunctionKey(script[2][2]) /\ again[1] = "ok"
        THEN Processed("ok", again[2], <<prompt, followUp>>, done[3] \o again[3])
        ELSE Processed("ok", Text(script[2][2]), <<prompt, followUp>>, done[3])

\* ProcessWithFunctions: script holds, for the first and the second call of
\* c.llm.Call, the error it returns ("ok" for nil) and the completion
ProcessWithFunctions(input, provider, functions, script, market) ==
    LET prompt   == Prompt(input, functions)
        response == script[1][2]
        call     == Unmarshal(response)
        done     == executeFunction(call, provider, market)
        followUp == FollowUpPrompt(prompt, done[2])
    IN  IF input = <<>> THEN Processed("input text cannot be empty", <<>>, <<>>, <<>>)
        ELSE IF script[1][1] # "ok"
        THEN Processed("failed to process text: " \o script[1][1], <<>>, <<prompt>>, <<>>)
        ELSE IF ~ContainsFunctionKey(response)
        THEN Processed("ok", Text(response), <<prompt>>, <<>>)
        ELSE IF call[1] # "ok"
        THEN Processed("failed to parse function call: " \o call[1], <<>>, <<prompt>>, <<>>)
        ELSE IF done[1] # "ok"
        THEN Processed("failed to execute function: " \o done[1], <<>>, <<prompt>>, done[3])
        ELSE IF script[2][1] # "ok"
        THEN Processed("failed to process follow-up: " \o script[2][1], <<>>,
                       <<prompt, followUp>>, done[3])
        ELSE Processed("ok", Text(script[2][2]), <<prompt, followUp>>, done[3])

\* --- inputs of the bridge ---
Absent == <<"absent">>

\* the arguments of a call: the symbol alone, or all four with one of them
\* absent, good, a string that is no value of its kind, a number out of
\* range, or of another JSON type
ArgumentSets ==
    LET Choices == << {Absent, JString("R_50"), JNumber(50 * One)},
                      {Absent, JString("day"), JString("fortnight"), JNumber(One)},
                      {Absent, JString("ticks"), JString("bars"), JNumber(One)},
                      {Absent, JNumber(25 * One), JNumber(0),
                       JNumber((5 * One) \div 2), JString("25")} >>
        Good == <<JString("R_50"), JString("day"), JString("ticks"), JNumber(25 * One)>>
        Members(pairs) == SelectSeq(pairs, LAMBDA pair : pair[2] # Absent)
    IN  { Members(<< <<"symbol", a[1]>>, <<"interval", a[2]>>, <<"style", a[3]>>,
                     <<"count", a[4]>> >>) :
            a \in { <<JString("R_50"), Absent, Absent, Absent>> }
                    \cup UNION { { [Good EXCEPT ![k] = v] : v \in Choices[k] } :
                                   k \in 1..4 } }

\* a function call in the format the prompt shows
Advertised(name, arguments) ==
    JObject(<< <<"function", JString(name)>>, <<"arguments", JObject(arguments)>> >>)

\* a function call that has the members of core.LLMFunctionCall as well
Decodable(name, arguments) ==
    JObject(<< <<"function", JString(name)>>, <<"name", JString(name)>>,
               <<"arguments", JObject(arguments)>> >>)

\* what the backend answers first: plain prose; prose around a function
\* call; function calls as the prompt shows them; function calls that also
\* carry the struct's own member names, with each of the sets of
\* arguments; a call with the struct's member names only; one with the name
\* capitalised; one whose name is not a string
FirstCompletions ==
    { Prose(S_answer),
      Prose(<<"Let me check: {", FunctionKey, " \"get_price\", ...}">>) }
      \cup { Advertised(name, arguments) :
               name \in Tools \cup {"get_balance"},
               arguments \in { <<>>, << <<"symbol", JString("R_50")>> >>,
                               << <<"symbol", JString("R_50")>>,
                                  <<"interval", JString("day")>> >> } }
      \cup { Decodable(name, arguments) :
               name \in Tools \cup {"get_balance"}, arguments \in ArgumentSets }
      \cup { JObject(<< <<"name", JString("get_price")>>,
                        <<"arguments", JObject(<< <<"symbol", JString("R_50")>> >>)>> >>),
             JObject(<< <<"function", JString("get_price")>>,
                        <<"Name", JString("get_price")>>,
                        <<"arguments", JObject(<< <<"symbol", JString("R_50")>> >>)>> >>),
             JObject(<< <<"function", JString("get_price")>>,
                        <<"name", JNumber(One)>> >>) }

\* the two calls of c.llm.Call: the first succeeds or fails, the second is
\* looked at only when the first succeeded; it fails, answers in prose, or
\* asks for another function call
Scripts ==
    { << <<"ok", first>>, <<o, Prose(<<"R_50 is at ", "1", "2", "3", ".", "4", "5">>)>> >> :
          first \in FirstCompletions, o \in {"ok", "timeout"} }
      \cup { << <<"ok", first>>,
                <<"ok", Decodable("get_price", << <<"symbol", JString("R_100")>> >>)>> >> :
                first \in FirstCompletions }
      \cup { << <<o, Prose(<<>>)>>, <<"ok", Prose(<<"R_50 is at ", "1", "2", "3", ".", "4", "5">>)>> >> : o \in Faults }

\* the world ProcessMessage sees when the bridge is its language backend
Behind(run) ==
    [tieUp |-> FALSE, deriv |-> "ok", number |-> 12345 * Hundredth,
     llm |-> run[1], said |-> run[2]]

\* a listed user's free text is dispatched: ProcessMessage hands the joined
\* text, the brokerage client and the catalog to ProcessWithFunctions.  The
\* market is what the provider does during the run: the error of its
\* connection ("ok" for none) and the quote it has.
Converse ==
    \E args \in { <<S_hello>>, <<S_hello, S_R50>> }, script \in Scripts,
       market \in { <<o, 12345 * Hundredth>> : o \in Outcomes } :
    \E m \in {Message("", args, <<1, 7>>, "Alice", <<>>)} :
    \E run \in {ProcessWithFunctions(Join(m.Args, <<" ">>), "derivClient",
                                     MarketDataFunctions, script, market)} :
    \E out \in {ProcessMessage(allowedUsers, m, Behind(run))} :
        /\ bridge' = <<m, script, market, run, <<out.response, out.err, out.calls>> >>
        /\ UNCHANGED <<coreVars, adapterVars, legacy, presses, race, boot, web>>

BridgeSpec == Init /\ [][Converse]_vars

(***************************************************************************)
(* The start command (package cmd): runStartCmd statement by statement,    *)
(* the goroutine that waits for the interrupt signal, and the deferred     *)
(* calls at the return                                                     *)
(***************************************************************************)
\* runStartCmd's frame: pc is the statement it stands before; conn is the
\* brokerage connection ("none", "open" once Connect has returned nil,
\* "closed"); deferred are the deferred calls, the latest first; ret is the
\* error it returns ("" while it runs)
Frame(pc, debug, cancelled, conn, deferred, polled, ret) ==
    <<pc, debug, cancelled, conn, deferred, polled, ret>>

\* the frame at a return statement: the deferred calls are still to run
Returning(f, err) == Frame("return", f[2], f[3], f[4], f[5], f[6], err)

\* runStartCmd is called: the context is derived and cancel is deferred
Invoke ==
    /\ boot = <<>>
    /\ \E debug \in BOOLEAN :
          boot' = Frame("deriv.NewClient", debug, FALSE, "none", <<"cancel">>, 0, "")
    /\ UNCHANGED <<coreVars, adapterVars, legacy, bridge, presses, race, web>>

\* the goroutine started for the signal receives SIGINT or SIGTERM and
\* cancels the context
Interrupt ==
    /\ boot # <<>> /\ boot[1] # "exited" /\ ~boot[3]
    /\ boot' = Frame(boot[1], boot[2], TRUE, boot[4], boot[5], boot[6], boot[7])
    /\ UNCHANGED <<coreVars, adapterVars, legacy, bridge, presses, race, web>>

\* deriv.NewClient, llm.NewClient and core.NewBot, one statement each: the
\* error of each is returned
Construct ==
    /\ boot # <<>>
    /\ \E step \in { <<"deriv.NewClient", "llm.NewClient", "failed to create Deriv client">>,
                      <<"llm.NewClient", "core.NewBot", "failed to create LLM client">>,
                      <<"core.NewBot", "Connect", "core.NewBot">> } :
          /\ boot[1] = step[1]
          /\ \E ok \in BOOLEAN :
                boot' = IF ok
                        THEN Frame(step[2], boot[2], boot[3], boot[4], boot[5],
                                   boot[6], boot[7])
                        ELSE Returning(boot, step[3])
    /\ UNCHANGED <<coreVars, adapterVars, legacy, bridge, presses, race, web>>

\* variant: Close is not deferred
Connect_NoDefer ==
    /\ boot # <<>> /\ boot[1] = "Connect"
    /\ \E outcome \in {"ok", "failed to connect", "failed to authorize"} :
          boot' = CASE outcome = "ok" ->
                         Frame("telegram.NewBot", boot[2], boot[3], "open",
                               boot[5], boot[6], boot[7])
                    [] outcome = "failed to connect" -> Returning(boot, outcome)
                    [] OTHER ->
                         Returning(Frame(boot[1], boot[2], boot[3], "closed", boot[5],
                                         boot[6], boot[7]), outcome)
    /\ UNCHANGED <<coreVars, adapterVars, legacy, bridge, presses, race, web>>

\* derivClient.Connect(ctx): api.Connect fails, or Authorize fails and the
\* connection is disconnected again, or both succeed.  After a nil return
\* Close is deferred.
Connect ==
    /\ boot # <<>> /\ boot[1] = "Connect"
    /\ \E outcome \in {"ok", "failed to connect", "failed to authorize"} :
          boot' = CASE outcome = "ok" ->
                         Frame("telegram.NewBot", boot[2], boot[3], "open",
                               <<"Close">> \o boot[5], boot[6], boot[7])
                    [] outcome = "failed to connect" -> Returning(boot, outcome)
                    [] OTHER ->
                         Returning(Frame(boot[1], boot[2], boot[3], "closed", boot[5],
                                         boot[6], boot[7]), outcome)
    /\ UNCHANGED <<coreVars, adapterVars, legacy, bridge, presses, race, web>>

\* telegram.NewBot: its error is returned
InitTelegram ==
    /\ boot # <<>> /\ boot[1] = "telegram.NewBot"
    /\ \E ok \in BOOLEAN :
          boot' = IF ok
                  THEN Frame("bot.Start", boot[2], boot[3], boot[4], boot[5],
                             boot[6], boot[7])
                  ELSE Returning(boot, "failed to create bot")
    /\ UNCHANGED <<coreVars, adapterVars, legacy, bridge, presses, race, web>>

\* bot.Start's select takes an update from the channel
Poll ==
    /\ boot # <<>> /\ boot[1] = "bot.Start"
    /\ boot[6] < MaxPolls
    /\ boot' = Frame(boot[1], boot[2], boot[3], boot[4], boot[5], boot[6] + 1, boot[7])
    /\ UNCHANGED <<coreVars, adapterVars, legacy, bridge, presses, race, web>>

\* bot.Start's select takes ctx.Done: Start returns ctx.Err(), and
\* runStartCmd returns it
StartEnds ==
    /\ boot # <<>> /\ boot[1] = "bot.Start"
    /\ boot[3]
    /\ boot' = Returning(boot, "context canceled")
    /\ UNCHANGED <<coreVars, adapterVars, legacy, bridge, presses, race, web>>

\* at the return the deferred calls run, the latest first: Close
\* disconnects, cancel cancels the context; then runStartCmd has returned
Unwind ==
    /\ boot # <<>> /\ boot[1] = "return"
    /\ boot' = IF boot[5] = <<>>
               THEN Frame("exited", boot[2], boot[3], boot[4], boot[5], boot[6], boot[7])
               ELSE Frame(boot[1], boot[2],
                          boot[3] \/ Head(boot[5]) = "cancel",
                          IF Head(boot[5]) = "Close" THEN "closed" ELSE boot[4],
                          Tail(boot[5]), boot[6], boot[7])
    /\ UNCHANGED <<coreVars, adapterVars, legacy, bridge, presses, race, web>>

CommandNext ==
    \/ Invoke
    \/ Interrupt
    \/ Construct
    \/ Connect
    \/ InitTelegram
    \/ Poll
    \/ StartEnds
    \/ Unwind

CommandSpec == Init /\ [][CommandNext]_vars

(***************************************************************************)
(* The web app's connection service (DerivAPIService, deriv-api.ts)        *)
(*                                                                         *)
(* JavaScript runs one handler at a time, so every action below is one     *)
(* run to completion: a call up to its first await, the rest of a call     *)
(* after an await, a socket event handler, or the reconnect timer.  The    *)
(* service's methods may be called at any point between two such runs;     *)
(* events and timers are only dispatched when no continuation is ready,    *)
(* and the close event of a failed socket follows its error event.  The    *)
(* field isConnecting is written but never read and is left out.           *)
(***************************************************************************)
\* The service and its surroundings.  sockets: every connection attempt in
\* the order made, a pair of the socket's readyState and the state of the
\* promise made with it; "none" is an attempt whose socket could not be
\* created, "FAILED" a socket whose error event has fired and whose close
\* event is due (its readyState reads CLOSED), "CLOSED" one whose close event
\* has fired.  connection and connectionPromise are the number of an attempt
\* or 0 for null, api is <<>> for null or the one connection it was made
\* with, tickSubscription the number of a subscription or 0, subscriptions
\* the subscriptions created, each the socket it was made on and whether it
\* has been unsubscribed, timers the reconnect timers set and not yet fired,
\* calls the asynchronous calls: the method, the await it is at, and what it
\* awaits.
Service(sockets, connection, api, connectionPromise, tickSubscription, subscriptions, timers, going) ==
    [sockets |-> sockets, connection |-> connection, api |-> api,
     connectionPromise |-> connectionPromise,
     tickSubscription |-> tickSubscription, subscriptions |-> subscriptions,
     timers |-> timers, calls |-> going]

\* connect(): the promise it returns is connectionPromise afterwards, or a
\* resolved one (0) where that is null.  The executor of the new promise
\* runs before the promise is assigned to connectionPromise.
connect(s, throws) ==
    IF s.connectionPromise # 0 THEN s
    ELSE IF s.connection # 0 /\ s.sockets[s.connection][1] = "OPEN"
            /\ s.api # <<>> THEN s
    ELSE IF throws
    THEN Service(Append(s.sockets, <<"none", "rejected">>), s.connection,
                 s.api, Len(s.sockets) + 1, s.tickSubscription,
                 s.subscriptions, s.timers, s.calls)
    ELSE Service(Append(s.sockets, <<"CONNECTING", "pending">>),
                 Len(s.sockets) + 1, s.api, Len(s.sockets) + 1,
                 s.tickSubscription, s.subscriptions, s.timers, s.calls)

\* No event is dispatched to socket k, and no timer fires (k = 0), while a
\* call can go on after await this.connect(), or while another socket's
\* close event is due after its error event.
Busy(k) ==
    \/ \E i \in 1..Len(web.calls) :
          /\ web.calls[i][2] = "connect"
          /\ IF web.calls[i][3] = 0 THEN TRUE
             ELSE web.sockets[web.calls[i][3]][2] # "pending"
    \/ \E j \in 1..Len(web.sockets) : j # k /\ web.sockets[j][1] = "FAILED"

\* getInstance() for the first time: the constructor calls connect()
GetInstance ==
    /\ web = <<>>
    /\ \E throws \in BOOLEAN :
          web' = connect(Service(<<>>, 0, <<>>, 0, 0, <<>>, 0, <<>>), throws)
    /\ UNCHANGED <<coreVars, adapterVars, legacy, bridge, presses, race, boot>>

\* subscribeTicks up to await this.connect()
SubscribeTicks ==
    /\ web # <<>>
    /\ Len(web.calls) < MaxCalls
    /\ \E throws \in BOOLEAN :
       \E s \in {connect(web, throws)} :
          /\ Len(s.sockets) <= MaxSockets
          /\ web' = Service(s.sockets, s.connection, s.api,
                            s.connectionPromise, s.tickSubscription,
                            s.subscriptions, s.timers,
                            Append(s.calls, <<"subscribeTicks", "connect",
                                              s.connectionPromise>>))
    /\ UNCHANGED <<coreVars, adapterVars, legacy, bridge, presses, race, boot>>

\* unsubscribeTicks up to await this.tickSubscription.unsubscribe()
UnsubscribeTicks ==
    /\ web # <<>>
    /\ web.tickSubscription # 0
    /\ Len(web.calls) < MaxCalls
    /\ web' = Service(web.sockets, web.connection, web.api,
                      web.connectionPromise, web.tickSubscription,
                      web.subscriptions, web.timers,
                      Append(web.calls, <<"unsubscribeTicks", "unsubscribe",
                                          web.tickSubscription>>))
    /\ UNCHANGED <<coreVars, adapterVars, legacy, bridge, presses, race, boot>>

\* disconnect(): unsubscribeTicks() is called and not awaited, the socket is
\* closed when it is open, and api and connection are dropped
Disconnect ==
    /\ web # <<>>
    /\ web.tickSubscription # 0 => Len(web.calls) < MaxCalls
    /\ web' = Service(IF web.connection # 0
                         /\ web.sockets[web.connection][1] = "OPEN"
                      THEN [web.sockets EXCEPT ![web.connection][1] = "CLOSING"]
                      ELSE web.sockets,
                      0, <<>>, web.connectionPromise, web.tickSubscription,
                      web.subscriptions, web.timers,
                      IF web.tickSubscription # 0
                      THEN Append(web.calls, <<"unsubscribeTicks", "unsubscribe",
                                               web.tickSubscription>>)
                      ELSE web.calls)
    /\ UNCHANGED <<coreVars, adapterVars, legacy, bridge, presses, race, boot>>

\* A call goes on after its await, once what it awaits is settled.  The
\* subscription's unsubscribe() and the api's subscribe() are the library's:
\* either may reject, subscribe() gives a subscription only on an open
\* socket and may give none.
Resume(i) ==
    /\ web # <<>>
    /\ i \in 1..Len(web.calls)
    /\ LET f == web.calls[i]
           \* the call is at pc now, with the fields written so far
           Moved(tick, subs, pc, arg) ==
               Service(web.sockets, web.connection, web.api,
                       web.connectionPromise, tick, subs, web.timers,
                       [web.calls EXCEPT ![i] = <<f[1], pc, arg>>])
           \* catch of subscribeTicks: this.connection?.close(); throw error
           Caught(tick) ==
               Service(IF web.connection # 0
                          /\ web.sockets[web.connection][1]
                               \in {"CONNECTING", "OPEN"}
                       THEN [web.sockets EXCEPT ![web.connection][1] = "CLOSING"]
                       ELSE web.sockets,
                       web.connection, web.api, web.connectionPromise, tick,
                       web.subscriptions, web.timers,
                       [web.calls EXCEPT ![i] = <<f[1], "thrown", 0>>])
           \* await this.api.subscribe(request); a null api throws
           Subscribing(tick, subs) ==
               IF web.api = <<>> THEN Caught(tick)
               ELSE Moved(tick, subs, "subscribe", web.api[1])
           Unsubscribed ==
               [web.subscriptions EXCEPT ![f[3]][2] = "unsubscribed"]
       IN  CASE f[2] = "connect" ->
                  /\ IF f[3] = 0 THEN TRUE ELSE web.sockets[f[3]][2] # "pending"
                  /\ web' =
                       IF f[3] # 0 /\ web.sockets[f[3]][2] = "rejected"
                       THEN Caught(web.tickSubscription)
                       ELSE IF web.api = <<>>
                       THEN Caught(web.tickSubscription)
                       ELSE IF web.tickSubscription # 0
                       THEN Moved(web.tickSubscription, web.subscriptions,
                                  "unsubscribe", web.tickSubscription)
                       ELSE Subscribing(web.tickSubscription,
                                        web.subscriptions)
             [] f[2] = "unsubscribe" ->
                  \E rejected \in BOOLEAN :
                     web' =
                       IF f[1] = "unsubscribeTicks"
                       THEN IF rejected
                            THEN Moved(web.tickSubscription, web.subscriptions,
                                       "returned", 0)
                            ELSE Moved(0, Unsubscribed, "returned", 0)
                       ELSE IF rejected THEN Caught(web.tickSubscription)
                       ELSE Subscribing(0, Unsubscribed)
             [] f[2] = "subscribe" ->
                  \E outcome \in {"subscription", "null", "rejected"} :
                     /\ outcome = "subscription" =>
                           /\ f[3] # 0
                           /\ web.sockets[f[3]][1] = "OPEN"
                           /\ Len(web.subscriptions) < MaxSubscriptions
                     /\ web' =
                          CASE outcome = "subscription" ->
                                 Moved(Len(web.subscriptions) + 1,
                                       Append(web.subscriptions,
                                              <<f[3], "active">>),
                                       "returned", 0)
                            [] outcome = "null" -> Caught(0)
                            [] OTHER -> Caught(web.tickSubscription)
             [] OTHER -> FALSE
    /\ UNCHANGED <<coreVars, adapterVars, legacy, bridge, presses, race, boot>>

\* onopen of socket k: the api is made with this.connection, whatever that
\* is by now; where making it throws the promise is rejected and nothing
\* else is written
OnOpen(k) ==
    /\ web # <<>>
    /\ k \in 1..Len(web.sockets)
    /\ web.sockets[k][1] = "CONNECTING"
    /\ ~Busy(k)
    /\ \E throws \in BOOLEAN :
          web' = IF throws
                 THEN Service([web.sockets EXCEPT ![k] = <<"OPEN", "rejected">>],
                              web.connection, web.api, web.connectionPromise,
                              web.tickSubscription, web.subscriptions,
                              web.timers, web.calls)
                 ELSE Service([web.sockets EXCEPT ![k] = <<"OPEN", "resolved">>],
                              web.connection, <<web.connection>>, 0,
                              web.tickSubscription, web.subscriptions,
                              web.timers, web.calls)
    /\ UNCHANGED <<coreVars, adapterVars, legacy, bridge, presses, race, boot>>

\* onerror of socket k: a socket fails while it is connecting or open, or
\* while it is being closed; the close event follows
OnError(k) ==
    /\ web # <<>>
    /\ k \in 1..Len(web.sockets)
    /\ web.sockets[k][1] \in {"CONNECTING", "OPEN", "CLOSING"}
    /\ ~Busy(k)
    /\ web' = Service([web.sockets EXCEPT ![k] =
                          <<"FAILED", IF @[2] = "pending" THEN "rejected"
                                      ELSE @[2]>>],
                      web.connection, web.api, 0, web.tickSubscription,
                      web.subscriptions, web.timers, web.calls)
    /\ UNCHANGED <<coreVars, adapterVars, legacy, bridge, presses, race, boot>>

\* onclose of socket k: after close(), after an error, or when the server
\* closes an open socket; the handler sets the reconnect timer
OnClose(k) ==
    /\ web # <<>>
    /\ k \in 1..Len(web.sockets)
    /\ web.sockets[k][1] \in {"OPEN", "CLOSING", "FAILED"}
    /\ ~Busy(k)
    /\ web' = Service([web.sockets EXCEPT ![k][1] = "CLOSED"], 0, <<>>, 0, 0,
                      web.subscriptions, web.timers + 1, web.calls)
    /\ UNCHANGED <<coreVars, adapterVars, legacy, bridge, presses, race, boot>>

\* a reconnect timer fires: connect()
Timer ==
    /\ web # <<>>
    /\ web.timers > 0
    /\ ~Busy(0)
    /\ \E throws \in BOOLEAN :
       \E s \in {connect(web, throws)} :
          /\ Len(s.sockets) <= MaxSockets
          /\ web' = Service(s.sockets, s.connection, s.api,
                            s.connectionPromise, s.tickSubscription,
                            s.subscriptions, s.timers - 1, s.calls)
    /\ UNCHANGED <<coreVars, adapterVars, legacy, bridge, presses, race, boot>>

WebNext ==
    \/ GetInstance
    \/ SubscribeTicks
    \/ UnsubscribeTicks
    \/ Disconnect
    \/ \E i \in 1..MaxCalls : Resume(i)
    \/ \E k \in 1..MaxSockets : OnOpen(k)
    \/ \E k \in 1..MaxSockets : OnError(k)
    \/ \E k \in 1..MaxSockets : OnClose(k)
    \/ Timer

WebSpec == Init /\ [][WebNext]_vars

(***************************************************************************)
(* Properties                                                              *)
(***************************************************************************)
\* a dispatch has happened; msg, result and calls describe it
Dispatched == result # NoResult

\* the sender of the latest message is on the allow list as configured
Listed == msg.Username \in allowedUsers

Unauthorized == Ptr(Response(T_Unauthorized, msg, <<>>))

IsFailure == result.response = Nil /\ result.err # Nil
IsResponse == result.response # Nil /\ result.err = Nil

\* C1: a message from a user who is not on the allow list (the empty name
\* included) gets the fixed not-authorized response, whatever its command,
\* args or callback data, and no collaborator is called.
C1_UnauthorizedShortCircuit ==
    (Dispatched /\ ~Listed) =>
        /\ result.response = Unauthorized
        /\ result.err = Nil
        /\ calls = <<>>

\* an unlisted user sent a well-formed /buy; another clicked a trade button
C1_Witness ==
    /\ Dispatched /\ ~Listed
    /\ \/ msg.Command = "buy" /\ Len(msg.Args) = 2 /\ ParseFloat(msg.Args[2]).ok
       \/ msg.Username = "" /\ clicked > 0

\* C2: the authorization check is case-insensitive: a user name that
\* differs from an allow-listed name only in letter case is allowed.
C2_CaseInsensitive ==
    (Dispatched /\ \E n \in allowedUsers : ToLower(n) = ToLower(msg.Username)) =>
        /\ isUserAllowed(allowedUsers, msg.Username)
        /\ result.response # Unauthorized

\* C3: a dispatch fails only if a collaborator call made during it failed.
C3_FailsOnlyOnCollaboratorError ==
    (Dispatched /\ result.err # Nil) => \E i \in 1..Len(calls) : Failed(calls[i])

\* the latest message is a callback event, and what its token decodes to
IsCallback == msg.CallbackData # <<>>
Data == ParseCallbackData(msg.CallbackData)
TokenAmount == ParseFloat(Data.amount)
TradeToken == IsCallback /\ Data.action = S_trade

\* the direction suffix of the token: its last field
TokenDirection ==
    LET parts == Split(msg.CallbackData, ":") IN parts[Len(parts)]

PlaceTradeCalls == {i \in 1..Len(calls) : calls[i].op = "PlaceTrade"}

C5_TwoStepCalls ==
    /\ (Dispatched /\ Listed /\ msg.Command = "buy" /\ ~IsCallback) => calls = <<>>
    /\ (Dispatched /\ Listed /\ clicked > 0) =>
           Len(calls) = 1 /\ calls[1].op = "PlaceTrade"
    /\ Len(calls) <= 1

\* /buy or /price of a listed user with missing or non-numeric arguments
BadBuy ==
    msg.Command = "buy" /\ (Len(msg.Args) < 2 \/ ~ParseFloat(msg.Args[2]).ok)
BadPrice == msg.Command = "price" /\ Len(msg.Args) = 0

\* C6: /buy with fewer than two arguments or a non-numeric amount, and
\* /price without argument, get a normal explanatory response (the
\* invalid-amount message in the non-numeric case) without buttons, and no
\* collaborator is called.
C6_UsageErrors ==
    (Dispatched /\ Listed /\ ~IsCallback /\ (BadBuy \/ BadPrice)) =>
        /\ IsResponse
        /\ calls = <<>>
        /\ Deref(result.response).Buttons = <<>>
        /\ Deref(result.response).Text =
             IF BadPrice THEN T_PriceUsage
             ELSE IF Len(msg.Args) < 2 THEN T_BuyUsage
             ELSE T_InvalidAmount

\* a listed user sent /buy with a second argument that is not a number
C6_Witness ==
    /\ Dispatched /\ Listed /\ ~IsCallback
    /\ msg.Command = "buy" /\ Len(msg.Args) >= 2 /\ ~ParseFloat(msg.Args[2]).ok

\* C7: decoding the token of a button that step 1 produced yields the symbol
\* of the /buy command, its amount rounded to two decimals, and the
\* direction of the clicked button.
C7_TokenRoundTrip ==
    (Dispatched /\ Listed /\ clicked > 0) =>
        /\ Data.symbol = offer.symbol
        /\ TokenAmount.ok
        /\ TokenAmount.val % Hundredth = 0
        /\ 2 * Abs(TokenAmount.val - offer.amount) <= Hundredth
        /\ TokenDirection = (IF clicked = 1 THEN S_up ELSE S_down)

\* the amount a confirmation text shows after "$", in model units
ShownAmount(text) ==
    LET i == CHOOSE j \in 1..Len(text) : text[j] = ": $"
    IN  ParseFloat(SubSeq(text, i + 1, Len(text)))

C10_FaultPropagatesNoRetry ==
    Dispatched =>
        /\ Len(calls) <= 1
        /\ \A i \in 1..Len(calls) :
             Failed(calls[i]) =>
                 /\ IsFailure
                 /\ Deref(result.err).cause = calls[i].outcome

\* PlaceTrade failed on a click of a shown button
C10_Witness ==
    /\ Dispatched /\ clicked > 0
    /\ Len(calls) = 1 /\ calls[1].op = "PlaceTrade" /\ Failed(calls[1])

\* C13: every response ProcessMessage returns, on every path, carries the
\* ChatID of the message that triggered it and that message's MessageID as
\* ReplyToMessageID.
C13_ReplyCorrelation ==
    Dispatched /\ result.response # Nil =>
        /\ Deref(result.response).ChatID = msg.ChatID
        /\ Deref(result.response).ReplyToMessageID = msg.MessageID

\* a listed user's click got the trade confirmation, addressed to the chat
\* and message of the click
C13_Witness ==
    /\ Dispatched /\ Listed /\ IsCallback /\ IsResponse
    /\ Len(calls) = 1
    /\ Deref(result.response).ChatID = msg.ChatID
    /\ Deref(result.response).ReplyToMessageID = msg.MessageID
    /\ msg.MessageID # 0

UnknownCommand == Ptr(Response(T_Unknown, msg, <<>>))

\* C19: a listed user's message whose command is not empty and is not a key
\* of the handler table gets the fixed unknown-command response and no
\* collaborator is called; the key is compared as it is, so a name that
\* differs from a key in case only is unknown.
C19_UnknownCommand ==
    Dispatched /\ Listed /\ msg.Command # "" /\ msg.Command \notin commandHandlers =>
        /\ result = [response |-> UnknownCommand, err |-> Nil]
        /\ calls = <<>>

\* /Start from a listed user was answered as unknown
C19_Witness ==
    /\ Dispatched /\ Listed /\ msg.Command = "Start"
    /\ result.response = UnknownCommand

\* the command names the specification lists
ListedCommands == {"start", "help", "symbols", "balance", "price", "buy", "position"}

\* C20: the command names that reach a handler are exactly start, help,
\* symbols, balance, price, buy and position; a listed user's message with
\* any other command gets the unknown-command response, and one with a
\* command of that list never does.
C20_HandlerSet ==
    Dispatched /\ Listed /\ msg.Command # "" =>
        (msg.Command \in ListedCommands <=> result.response # UnknownCommand)

\* /sell of a listed user with a symbol and an amount that parses
GoodSell ==
    /\ Dispatched /\ Listed /\ ~IsCallback /\ msg.Command = "sell"
    /\ Len(msg.Args) >= 2 /\ ParseFloat(msg.Args[2]).ok

\* C21: /sell <symbol> <amount> of a listed user, the amount being a number,
\* makes exactly one PlaceTrade call, with that symbol, that amount and the
\* direction PUT; when the call succeeds the answer is the confirmation,
\* which names the symbol and shows the amount with two decimals.
C21_SellPlacesPut ==
    GoodSell =>
        /\ Len(calls) = 1
        /\ calls[1].op = "PlaceTrade"
        /\ calls[1].symbol = msg.Args[1]
        /\ calls[1].amount = ParseFloat(msg.Args[2]).val
        /\ calls[1].direction = "PUT"
        /\ ~Failed(calls[1]) =>
             LET text == Deref(result.response).Text
             IN  /\ IsResponse
                 /\ \E i \in 1..Len(text) :
                        /\ SubSeq(text, 1, i)
                             = <<"[check] Sell order placed for ">> \o msg.Args[1]
                                 \o <<": $">>
                        /\ AllDigits(SubSeq(text, i + 1, Len(text) - 3))
                 /\ text[Len(text) - 2] = "."
                 /\ ShownAmount(text).ok
                 /\ 2 * Abs(ShownAmount(text).val - calls[1].amount) <= Hundredth

\* /sell R_100 1.005 was confirmed
C21_Witness ==
    /\ GoodSell /\ IsResponse /\ Len(calls) = 1
    /\ calls[1].amount % Hundredth # 0

\* a listed user's message with no command and no callback data
FreeText == Dispatched /\ Listed /\ msg.Command = "" /\ ~IsCallback

\* C22: for a listed user's message with no command and no callback data:
\* if the args joined by spaces are empty, the prompt-for-input response is
\* returned and the language backend is not called; otherwise
\* ProcessWithFunctions is called exactly once, with the joined text, the
\* brokerage client and the function catalog, and when it succeeds the text
\* it returned is the text of the response, unchanged.
C22_FreeTextForwarded ==
    FreeText =>
        IF Join(msg.Args, <<" ">>) = <<>>
        THEN /\ result = [response |-> Ptr(Response(T_NoText, msg, <<>>)), err |-> Nil]
             /\ calls = <<>>
        ELSE /\ Len(calls) = 1
             /\ calls[1].op = "ProcessWithFunctions"
             /\ calls[1].input = Join(msg.Args, <<" ">>)
             /\ calls[1].provider = "derivClient"
             /\ calls[1].functions = MarketDataFunctions
             /\ ~Failed(calls[1]) =>
                  /\ IsResponse
                  /\ Deref(result.response).Text = calls[1].output
                  /\ Deref(result.response).Buttons = <<>>

\* two words of free text were joined and handed to the backend, whose
\* answer with a price in it came back as the response
C22_Witness ==
    /\ FreeText /\ Len(msg.Args) = 2 /\ IsResponse
    /\ Len(calls) = 1 /\ Len(calls[1].input) > Len(msg.Args[1]) + Len(msg.Args[2])
    /\ Len(calls[1].output) > 1

\* a listed user's command, not a click
Commanded(name) == Dispatched /\ Listed /\ ~IsCallback /\ msg.Command = name

\* the one call of the latest dispatch is op
OneCall(op) == Len(calls) = 1 /\ calls[1].op = op

\* C23: the start, help and symbols handlers call no collaborator; the
\* balance, price (given a symbol) and position handlers each make exactly
\* one call, which is GetBalance, GetPrice (for that symbol) and GetPosition
\* respectively; none of the six calls PlaceTrade.
C23_HandlerCalls ==
    /\ \A name \in {"start", "help", "symbols"} : Commanded(name) => calls = <<>>
    /\ Commanded("balance") => OneCall("GetBalance")
    /\ Commanded("price") /\ Len(msg.Args) >= 1 =>
           OneCall("GetPrice") /\ calls[1].symbol = msg.Args[1]
    /\ Commanded("position") => OneCall("GetPosition")
    /\ \A name \in {"start", "help", "symbols", "balance", "price", "position"} :
           Commanded(name) => PlaceTradeCalls = {}

\* /price with a symbol was answered after one GetPrice
C23_Witness ==
    Commanded("price") /\ Len(msg.Args) >= 1 /\ OneCall("GetPrice") /\ IsResponse

\* the handlers and the branch of the router that call a collaborator to
\* read: balance, price, position and free text
Reads ==
    /\ Dispatched /\ Listed /\ ~IsCallback
    /\ msg.Command \in {"balance", "price", "position", ""}

\* C24: when the call that the balance, price or position handler makes, or
\* the call of the language backend for free text, returns an error,
\* ProcessMessage returns no response and an error that wraps the error of
\* the call under the handler's own message.
C24_ReadFaultsSurface ==
    Reads =>
        \A i \in 1..Len(calls) :
            Failed(calls[i]) =>
                /\ result.response = Nil
                /\ result.err # Nil
                /\ Deref(result.err) =
                     Errorf(CASE msg.Command = "balance"  -> <<"failed to get balance">>
                              [] msg.Command = "price"    -> <<"failed to get price">>
                              [] msg.Command = "position" -> <<"failed to get position">>
                              [] msg.Command = ""         -> <<"failed to process text">>,
                            calls[i].outcome)

\* the language backend failed on free text
C24_Witness ==
    /\ Reads /\ msg.Command = "" /\ IsFailure
    /\ Len(calls) = 1 /\ Failed(calls[1])

\* the latest dispatch was a listed user's click of a button shown in the chat
ListedClick == Dispatched /\ Listed /\ clicked # 0

\* C29: a trade button never expires and is never consumed.  Whatever was
\* dispatched since it was shown, a listed user's click of it is dispatched
\* as a trade: PlaceTrade is called once, with the symbol, amount and
\* direction of the button, and the user gets the confirmation or, if the
\* brokerage failed, the failure; so the clicks of a button and the
\* PlaceTrade calls they made are as many.
C29_ButtonNeverConsumed ==
    /\ \A i \in 1..Len(presses) : presses[i][1] = presses[i][2]
    /\ ListedClick =>
          /\ TradeToken /\ TokenAmount.ok
          /\ Len(calls) = 1
          /\ calls[1].op = "PlaceTrade"
          /\ calls[1].symbol = Data.symbol
          /\ calls[1].amount = TokenAmount.val
          /\ calls[1].direction = (IF clicked = 1 THEN "CALL" ELSE "PUT")
          /\ IF Failed(calls[1]) THEN IsFailure
             ELSE IsResponse /\ Deref(result.response).Text # T_Unknown

\* the second click by a listed user of a button, with another dispatch
\* between the two
C29_Witness ==
    /\ ListedClick
    /\ presses[clicked][1] >= 2
    /\ presses[clicked][2] >= 2
    /\ presses[clicked][3] >= 1

\* what ProcessMessage returns for a message on the Bot as NewBot built it,
\* run alone
Alone(m, w) == Outcome(ProcessMessage(NewBot(AllowedUsernames), m, w))

\* C30: the router is stateless across messages.  No step of a
\* ProcessMessage call changes the allow list NewBot built (the handler
\* table and the symbol list are never assigned after NewBot either), and
\* every call, whatever calls went before it and whatever calls run at the
\* same time, returns what it would return for its message and its
\* collaborators' results if it ran alone.
C30_RouterStateless ==
    /\ allowedUsers = NewBot(AllowedUsernames)
    /\ \A i \in 1..Len(race) :
          race[i][3] = "returned" => race[i][4] = Alone(race[i][1], race[i][2])

\* two calls for different messages side by side: the later one, a listed
\* user's click, has returned with its trade placed while the earlier one,
\* a listed user's free text, is still waiting for the backend
C30_Witness ==
    /\ Len(race) = 2
    /\ race[1][3] = "handling" /\ race[1][1].Command = ""
    /\ race[1][1].CallbackData = <<>>
    /\ race[2][3] = "returned" /\ race[2][1].CallbackData # <<>>
    /\ Len(race[2][4][3]) = 1 /\ race[2][4][3][1].op = "PlaceTrade"

\* a listed user's /buy with a symbol and an amount that parses
GoodBuy ==
    /\ Commanded("buy") /\ Len(msg.Args) >= 2 /\ ParseFloat(msg.Args[2]).ok

\* text is an amount with exactly two decimals that is v rounded to them
TwoDecimalsOf(text, v) ==
    LET n      == Len(text)
        digits == IF n > 0 /\ text[1] = "-" THEN Tail(text) ELSE text
        k      == Len(digits)
    IN  /\ k >= 4
        /\ digits[k - 2] = "."
        /\ AllDigits(SubSeq(digits, 1, k - 3)) /\ AllDigits(SubSeq(digits, k - 1, k))
        /\ (n > 0 /\ text[1] = "-") <=> v < 0
        /\ 2 * Abs(ParseFloat(text).val - v) <= Hundredth

EndsWithDown ==
    LET n == Len(msg.CallbackData)
    IN  n >= 5 /\ SubSeq(msg.CallbackData, n - 4, n) = <<":", "d", "o", "w", "n">>

\* C34: in the confirmation step the direction is PUT exactly when the raw
\* callback data ends with ":down".  Every other trade token of a listed
\* user whose amount parses - direction up, a direction that is neither, no
\* direction field - is not rejected: PlaceTrade is called once, with CALL,
\* and the click is confirmed unless the brokerage fails.
C34_DirectionFromSuffix ==
    (Dispatched /\ Listed /\ TradeToken /\ TokenAmount.ok) =>
        /\ Len(calls) = 1
        /\ calls[1].op = "PlaceTrade"
        /\ calls[1].direction = "PUT" <=> EndsWithDown
        /\ calls[1].direction = "CALL" <=> ~EndsWithDown
        /\ IF Failed(calls[1]) THEN IsFailure
           ELSE IsResponse
                  /\ Deref(result.response).Text[2] =
                        (IF EndsWithDown THEN "[down-arrow]" ELSE "[up-arrow]")

\* a listed user's click whose token has no direction field was confirmed
\* as a CALL trade
C34_Witness ==
    /\ Dispatched /\ Listed /\ TradeToken /\ TokenAmount.ok
    /\ Data.direction = <<>>
    /\ IsResponse /\ Len(calls) = 1 /\ calls[1].direction = "CALL"

\* C32: /help and /start are idempotent.  Whatever was dispatched before,
\* and whatever the collaborators would do, a listed user's /help is
\* answered with the help text and a listed user's /start with the welcome
\* text, the same text every time, and no collaborator is called.
C32_HelpStartIdempotent ==
    /\ Commanded("help") =>
          IsResponse /\ Deref(result.response).Text = T_Help /\ calls = <<>>
    /\ Commanded("start") =>
          IsResponse /\ Deref(result.response).Text = T_Start /\ calls = <<>>

\* a listed user's /help after a /buy had put a keyboard into the chat
C32_Witness ==
    /\ Commanded("help") /\ keyboard # <<>>
    /\ Deref(result.response).Text = T_Help

(***************************************************************************)
(* Properties of the transport adapter                                     *)
(***************************************************************************)
Flights == {flights[i] : i \in 1..Len(flights)}

\* a text message or a button click
Inbound(f) == f.upd[1] # "other"

\* C11: the user is never left without a response: once handleUpdate has
\* returned for a text message or a button click, a reply has been sent to
\* the chat, and if ProcessMessage failed that reply is the generic
\* error-executing-command text.
C11_AlwaysAnswered ==
    \A f \in Flights :
        Inbound(f) /\ f.stage = "returned" =>
            /\ f.sent # <<>>
            /\ f.answer = Nil => f.sent[1][2].Text = T_ErrorExecuting

\* C14: for each update handleUpdate handles, ProcessMessage is called once,
\* and the response it returned is passed to api.Send exactly once: the one
\* reply is there when handleUpdate has returned, and there is none before
\* that or when ProcessMessage returned an error.
C14_OneReplyPerDispatch ==
    \A f \in Flights :
        /\ f.invoked <= 1
        /\ Inbound(f) /\ f.stage # "processing" => f.invoked = 1
        /\ f.stage = "returned" /\ f.answer # Nil =>
               /\ Len(f.sent) = 1
               /\ f.sent[1][2] = MessageConfig(Deref(f.answer))
        /\ f.stage # "returned" \/ f.answer = Nil => f.sent = <<>>
        /\ Inbound(f) /\ f.ret = "nil" => f.invoked = 1

\* /buy was answered with its keyboard, in one reply
C14_Witness ==
    \E f \in Flights :
        /\ f.stage = "returned" /\ f.invoked = 1 /\ Len(f.sent) = 1
        /\ f.upd[2].Command = "buy"
        /\ Len(f.sent[1][2].ReplyMarkup) = 1

\* C15: the typing goroutine has stopped when handleUpdate returns: no
\* typing action is sent after the return.
C15_NoTypingAfterReturn ==
    \A f \in Flights : "returned" \notin f.ticks

\* a typing goroutine whose typingCtx is done and that has not ended
Leaking(i) ==
    /\ i \in 1..Len(flights)
    /\ flights[i].typing = "running"
    /\ flights[i].stage = "returned" \/ ctxDone

\* C16: no typing goroutine is leaked: once handleUpdate has returned (with
\* the reply sent, with ProcessMessage's error or with the send error) or
\* the context is cancelled, the goroutine ends.  A goroutine stays at its
\* place in flights or moves towards the front, so one that never ended
\* would be Leaking at one place for ever.
C16_NoLeakedTyping == \A i \in 1..MaxFlights : []<>(~Leaking(i))

\* a goroutine ended after handleUpdate returned an error, and another one
\* after it returned nil
C16_Witness ==
    /\ \E f \in Flights :
           f.typing = "exited" /\ f.stage = "returned" /\ f.ret = "error"
    /\ \E f \in Flights :
           f.typing = "exited" /\ f.stage = "returned" /\ f.ret = "nil"

\* C17: when the context is cancelled while a dispatch is in flight, no
\* reply is sent for that dispatch afterwards.
C17_NoReplyAfterCancel ==
    \A f \in Flights : \A k \in 1..Len(f.sent) : ~f.late => ~f.sent[k][1]

SameChat(f, g) == f.upd[2].ChatID = g.upd[2].ChatID

\* C18: within one chat the replies are sent in the order the updates were
\* taken: whenever the reply to a later update of a chat has been sent,
\* handleUpdate has returned for every earlier update of that chat, so the
\* earlier reply, if there is one, was sent before.
C18_RepliesInOrder ==
    \A a, b \in 1..Len(flights) :
        a < b /\ SameChat(flights[a], flights[b]) /\ flights[b].sent # <<>> =>
            flights[a].stage = "returned"

\* two updates of one chat, both answered: the earlier handleUpdate
\* returned nil, which it does only after the reply was sent
C18_Witness ==
    \E a, b \in 1..Len(flights) :
        /\ a < b /\ SameChat(flights[a], flights[b])
        /\ Inbound(flights[a]) /\ flights[a].ret = "nil"
        /\ flights[b].sent # <<>>

\* the updates Start has passed to handleUpdate and that are still on record
Taken == [i \in 1..Len(flights) |-> flights[i].upd]

EarlyErrors ==
    {"failed to create Deriv client", "failed to create LLM client", "core.NewBot",
     "failed to connect", "failed to authorize"}

\* C36: start-up and shutdown order of the start command.  Updates are
\* polled only with the brokerage connection open, that is after the client
\* was created and Connect returned nil; when Connect or a step before it
\* failed, no update is ever polled; and when runStartCmd has returned after
\* a successful Connect - because the Telegram bot could not be created or
\* because the context was cancelled - the client has been closed.
C36_StartupShutdownOrder ==
    /\ [](boot # <<>> =>
            /\ boot[1] = "bot.Start" \/ boot[6] > 0 => boot[4] # "none"
            /\ boot[1] = "bot.Start" => boot[4] = "open"
            /\ boot[7] \in EarlyErrors => boot[6] = 0 /\ boot[4] # "open"
            /\ boot[1] = "exited" =>
                  /\ boot[7] \in EarlyErrors \cup {"failed to create bot", "context canceled"}
                  /\ boot[7] \notin EarlyErrors => boot[4] = "closed"
                  /\ boot[5] = <<>>)
    /\ [][boot # <<>> /\ boot' # <<>> /\ boot'[6] # boot[6]
            => boot[4] = "open" /\ boot'[4] = "open"]_vars

\* the Telegram bot could not be created after Connect had succeeded:
\* runStartCmd has returned that error and the client is closed
C36_Witness ==
    /\ boot # <<>> /\ boot[1] = "exited"
    /\ boot[7] = "failed to create bot"
    /\ boot[4] = "closed"

(***************************************************************************)
(* Properties of the earlier transport                                     *)
(***************************************************************************)
\* the same dispatch with the brokerage client failing with f
OtherFault(f) ==
    [tieUp |-> legacy[2][2], deriv |-> f, number |-> legacy[2][3], llm |-> "ok",
     said |-> S_answer]

\* C12: what the user is sent after a collaborator fault does not depend on
\* the error value: had the collaborator failed with another error, the
\* same update would have been answered with the same texts.
C12_FaultReplyIndependent ==
    legacy # <<>> /\ legacy[2][1] \in Faults =>
        \A f \in Faults :
            LegacyHandleUpdate(LegacyNewBot(AllowedUsernames), legacy[1],
                               OtherFault(f)).replies
                = legacy[3].replies

(***************************************************************************)
(* Properties of the tool bridge                                           *)
(***************************************************************************)
\* a free-text dispatch went through the bridge and the first call of the
\* backend returned a completion
Completed == bridge # <<>> /\ bridge[2][1][1] = "ok"

First == bridge[2][1][2]
SecondErr == bridge[2][2][1]
Second == bridge[2][2][2]
MarketErr == bridge[3][1]
RunErr == bridge[4][1]
RunText == bridge[4][2]
Prompts == bridge[4][3]
Queries == bridge[4][4]
Routed == [response |-> bridge[5][1], err |-> bridge[5][2]]

\* the function a completion asks for: what stands under function, the
\* key of the prompt's format, or else under name, the key of the struct
Requested(c) ==
    IF AsString(Lookup(c[2], "function")).ok
    THEN AsString(Lookup(c[2], "function")).val
    ELSE AsString(Tagged(c[2], "name")).val

RequestArguments(c) ==
    LET arguments == Lookup(c[2], "arguments")
    IN  IF arguments[1] = "object" THEN arguments[2] ELSE <<>>

\* a completion that is a function call and nothing else, for a function
\* the bridge has, with the arguments that function needs
IsRequest(c) ==
    /\ c[1] = "object"
    /\ Requested(c) \in Tools
    /\ AsString(Lookup(RequestArguments(c), "symbol")).ok
    /\ LET interval == Lookup(RequestArguments(c), "interval")
       IN  interval = JNull \/ (interval[1] = "string" /\ interval[2] \in Intervals)

\* the provider method behind a function
Method(name) == IF name = "get_price" THEN "GetPrice" ELSE "GetHistoricalData"

\* C25: when the first completion is a function call, the bridge executes
\* the function it names once on the market-data provider and then makes
\* one second completion call, whose prompt is the first prompt with the
\* function's result appended, and returns the text of the second
\* completion (provider and backend not failing); when the first
\* completion has no function call in it, the provider is not called, there
\* is no second completion call, and the text of the first completion is
\* returned.
C25_ToolRoundTrip ==
    Completed =>
        /\ IsRequest(First) /\ MarketErr = "ok" /\ SecondErr = "ok" =>
               /\ Len(Queries) = 1
               /\ Queries[1][1] = "derivClient"
               /\ Queries[1][2] = Method(Requested(First))
               /\ Len(Prompts) = 2
               /\ SubSeq(Prompts[2], 1, Len(Prompts[1]) + 1)
                    = Append(Prompts[1], "\n\nFunction result: ")
               /\ Prompts[2][Len(Prompts[1]) + 2]
                    \in {"Current price for ", "Historical data for "}
               /\ RunErr = "ok"
               /\ RunText = Text(Second)
        /\ First[1] = "prose" /\ ~ContainsFunctionKey(First) =>
               /\ Queries = <<>>
               /\ Len(Prompts) = 1
               /\ RunErr = "ok"
               /\ RunText = Text(First)

\* the keys of an object's members
Keys(c) == {c[2][i][1] : i \in 1..Len(c[2])}

\* C26: a function call written in the format of the prompt (an object
\* with the members function and arguments) that names get_price or
\* get_historical_data and gives a symbol makes the bridge call GetPrice or
\* GetHistoricalData on the provider; the run fails only if that call or
\* the second completion fails.
C26_AdvertisedFormatWorks ==
    Completed /\ First[1] = "object" /\ Keys(First) = {"function", "arguments"}
      /\ IsRequest(First) =>
        /\ Len(Queries) = 1
        /\ Queries[1][2] = Method(Requested(First))
        /\ RunErr # "ok" => Queries[1][4] # "ok" \/ SecondErr # "ok"

\* the functions a completion names, under either key
NamedFunctions(c) ==
    {v[2] : v \in {w \in {Lookup(c[2], "function"), Tagged(c[2], "name")} :
                      w[1] = "string"}}

\* C27: a function call that names no function but such as the bridge does
\* not have makes ProcessWithFunctions return the unknown-function error,
\* which ProcessMessage returns wrapped as its failure, without a response;
\* the provider is not called and there is no second completion call.
C27_UnknownFunctionFails ==
    Completed /\ First[1] = "object" /\ ContainsFunctionKey(First)
      /\ NamedFunctions(First) # {} /\ NamedFunctions(First) \cap Tools = {} =>
        /\ \E name \in NamedFunctions(First) \cup {""} :
               RunErr = "failed to execute function: unknown function: " \o name
        /\ RunText = <<>>
        /\ Queries = <<>>
        /\ Len(Prompts) = 1
        /\ Routed = [response |-> Nil,
                     err |-> Ptr(Errorf(<<"failed to process text">>, RunErr))]

\* the backend asked for get_balance with a symbol, in the format of the
\* prompt, and the dispatch failed
C27_Witness ==
    /\ Completed
    /\ First = Advertised("get_balance", << <<"symbol", JString("R_50")>> >>)
    /\ Routed.response = Nil /\ Routed.err # Nil

\* the function call the bridge decoded from the first completion
Decoded == Unmarshal(First)

\* the bridge got as far as executeFunction
Executing == Completed /\ ContainsFunctionKey(First) /\ Decoded[1] = "ok"

\* an argument as the catalog describes it, or its default
IntervalOr(v) == IF v[1] = "string" /\ v[2] \in Intervals THEN v[2] ELSE "hour"
StyleOr(v) == IF v[1] = "string" /\ v[2] \in {"ticks", "candles"} THEN v[2] ELSE "candles"
CountOr(v) ==
    IF v[1] = "number" /\ v[2] % One = 0 /\ v[2] >= One /\ v[2] <= 1000 * One
    THEN v[2] \div One ELSE 10

\* C28: a get_historical_data call with a symbol never fails because its
\* interval, style or count is missing or not valid: the provider is asked
\* once, with the default (hour, candles, 10) in place of each such
\* argument, and the function fails only if the provider's connection
\* does; a call of either function whose symbol is missing or not a string
\* fails without a provider call.
C28_DefaultsForBadArguments ==
    Executing =>
        LET arguments == Decoded[3]
            symbol    == Lookup(arguments, "symbol")
        IN  /\ Decoded[2] = "get_historical_data" /\ symbol[1] = "string" =>
                   /\ Queries
                        = <<Query("derivClient", "GetHistoricalData",
                                  <<symbol[2],
                                    IntervalOr(Lookup(arguments, "interval")),
                                    StyleOr(Lookup(arguments, "style")),
                                    CountOr(Lookup(arguments, "count"))>>,
                                  MarketErr)>>
                   /\ MarketErr = "ok" => Len(Prompts) = 2
            /\ Decoded[2] \in Tools /\ symbol[1] # "string" =>
                   /\ RunErr = "failed to execute function: invalid symbol argument"
                   /\ Queries = <<>>

\* C35: one round of the tool loop at most.  A free-text dispatch makes at
\* most two completion calls and at most one call of the provider; a
\* function call in the second completion is not executed: its text is what
\* ProcessWithFunctions returns and what the user is answered.
C35_OneToolRound ==
    bridge # <<>> =>
        /\ Len(Prompts) <= 2
        /\ Len(Queries) <= 1
        /\ Len(Prompts) = 2 /\ SecondErr = "ok" /\ ContainsFunctionKey(Second) =>
               /\ RunErr = "ok"
               /\ RunText = Text(Second)
               /\ Routed.err = Nil
               /\ Deref(Routed.response).Text = Text(Second)

\* the function of the first completion was executed, and the second
\* completion, a call of get_price for another symbol, came back as the text
C35_Witness ==
    /\ bridge # <<>> /\ Len(Prompts) = 2 /\ Len(Queries) = 1
    /\ SecondErr = "ok" /\ IsRequest(Second)
    /\ Deref(Routed.response).Text = Text(Second)

(***************************************************************************)
(* Properties of the web app's connection service                          *)
(***************************************************************************)
\* the sockets that are connecting or open
Live == {k \in 1..Len(web.sockets) : web.sockets[k][1] \in {"CONNECTING", "OPEN"}}

\* C37: the service has at most one WebSocket that is connecting or open at
\* any time, whatever the order of subscribeTicks and disconnect calls,
\* socket events and reconnect timers.
C37_OneLiveSocket == web # <<>> => Cardinality(Live) <= 1

\* the subscriptions that have not been unsubscribed and whose socket is
\* open
Ticking ==
    {j \in 1..Len(web.subscriptions) :
        /\ web.subscriptions[j][2] = "active"
        /\ web.subscriptions[j][1] \in Live}

\* C38: at most one tick subscription is active at any time, and it is the
\* one tickSubscription refers to: a subscription that was created and is
\* no longer referred to has been unsubscribed (or has gone with its
\* socket).
C38_OneActiveSubscription ==
    web # <<>> =>
        /\ Cardinality(Ticking) <= 1
        /\ \A j \in Ticking : j = web.tickSubscription

\* C39: after a connection attempt has failed connectionPromise is cleared:
\* it is never a rejected promise, which a later connect would return.
C39_FailedAttemptCleared ==
    (web # <<>> /\ web.connectionPromise # 0) =>
        web.sockets[web.connectionPromise][2] # "rejected"


====
